---- MODULE Spec2Model ----
(***************************************************************************)
(* Model of the document-processing service (main.py, processing.py,       *)
(* api_client.py, schemas.py, utils.py, config.py).                        *)
(*                                                                         *)
(* The specifications share the operators that model the code:            *)
(*   Spec   - the service: jobs in the registry, the group tasks that      *)
(*            process_zip_file_async dispatches, the as_completed loop     *)
(*            and the CSV sink, with DOCUMENT_FIELDS as config.py has it.  *)
(*   FnSpec - _classify_document_type and _extract_data_from_document     *)
(*            entered with inputs drawn from bounded sets, followed by     *)
(*            the row building of process_case_group (lines 248-264) and   *)
(*            the append of the row to the output file.                    *)
(*   GwSpec - APIClient.call_llm_with_parsing called by concurrent         *)
(*            callers: the semaphore, the retry loop and its backoff.      *)
(*   TxtSpec - _sanitize_llm_output and the fence stripping of             *)
(*            _parse_llm_json_response applied to raw texts, character by  *)
(*            character.                                                   *)
(*   GrpSpec - parse_filename_for_grouping and _group_files_by_base_name   *)
(*            applied to the files of one case folder.                     *)
(*   KeySpec - the key reconciliation of _parse_llm_json_response applied  *)
(*            to parsed objects, followed by step 2 of                     *)
(*            _extract_data_from_document.                                 *)
(*   LiveSpec - Spec with the fairness of the asyncio event loop.          *)
(* Python dicts are functions with string keys, None is the record None,   *)
(* confidences are tenths (0..10 for 0.0..1.0).                            *)
(***************************************************************************)
EXTENDS Integers, Sequences, FiniteSets, TLC

VARIABLES
    \* ---- FnSpec: one call of a function of processing.py ----
    pc,                 \* position of the task: see FnPcs
    document_files,     \* list of page numbers of the group, in list order
    fields_to_extract,  \* flat list of field names
    attempts_left,      \* correction_attempts_left of _correct_json_with_llm
    malformed_json_text, \* malformed_json_text of _correct_json_with_llm, None outside it
    extraction_result,  \* dict of _extract_data_from_document
    missing_fields,     \* names found None at step 2
    before_reask,       \* extraction_result as it was when the re-ask was issued
    reask_result,       \* parsed re-ask response
    class_result,       \* dict returned by _classify_document_type
    result_row,         \* row returned by process_case_group
    calls,              \* kinds of the model calls issued so far, in order
    rendered,           \* page numbers in the content parts of the latest call
    output_csv,         \* the output file the returned row is appended to
    \* ---- Spec: the service ----
    job_statuses,       \* main.job_statuses: job id -> JobStatus or NoJob
    archive,            \* what the uploaded zip of each job holds
    task,               \* per job and group: the process_case_group task, with
                        \* the outcome of its classification call
    completed,          \* per job: groups whose task ended, oldest first
    awaited,            \* per job: how many futures the as_completed loop consumed
    csv,                \* per job: the rows of <job_id>_output.csv, oldest first
    status_log,         \* per job: the values assigned to its status, oldest first
    \* ---- GwSpec: the gateway APIClient.call_llm_with_parsing ----
    sem,                \* free slots of APIClient._semaphore
    inv,                \* per caller: its invocation of call_llm_with_parsing
    \* ---- TxtSpec: a raw model text through the two clean-up functions ----
    txt_pc,             \* "raw", then "sanitized", "resanitized" or "processed"
    raw_response,       \* the text, a sequence of characters
    sanitized_output,   \* _sanitize_llm_output(raw_response)
    resanitized_output, \* _sanitize_llm_output(sanitized_output)
    processed_text,     \* processed_text of _parse_llm_json_response
    \* ---- GrpSpec: one case folder through _group_files_by_base_name ----
    grp_pc,             \* "folder", then "grouped"
    folder,             \* the files of the folder, in the order glob yields them
    placed,             \* per file: the (base_name, page_number) it was filed under
    doc_groups,         \* base name -> page numbers of the group, in list order
    \* ---- KeySpec: one parsed object through _parse_llm_json_response ----
    key_pc,             \* "loaded", then "normalized", "validated", "examined"
    schema_fields,      \* the field names of the extraction schema
    expected_names,     \* expected_field_names of _parse_llm_json_response
    data_dict,          \* the items of json5.loads(processed_text), in order
    normalized_dict,    \* normalized_dict, lines 72-76
    validated_data,     \* what _parse_llm_json_response returns
    reported_missing    \* missing_fields found in validated_data (step 2)

fnvars  == <<pc, document_files, fields_to_extract, attempts_left, malformed_json_text,
             extraction_result,
             missing_fields, before_reask, reask_result, class_result, result_row,
             calls, rendered, output_csv>>
jobvars == <<job_statuses, archive, task, completed, awaited, csv, status_log>>
gwvars  == <<sem, inv>>
txtvars == <<txt_pc, raw_response, sanitized_output, resanitized_output, processed_text>>
grpvars == <<grp_pc, folder, placed, doc_groups>>
keyvars == <<key_pc, schema_fields, expected_names, data_dict, normalized_dict,
             validated_data, reported_missing>>
vars    == <<fnvars, jobvars, gwvars, txtvars, grpvars, keyvars>>

\* What the actions of one specification leave alone.
notfn   == <<jobvars, gwvars, txtvars, grpvars, keyvars>>
notjob  == <<fnvars, gwvars, txtvars, grpvars, keyvars>>
notgw   == <<fnvars, jobvars, txtvars, grpvars, keyvars>>
nottxt  == <<fnvars, jobvars, gwvars, grpvars, keyvars>>
notgrp  == <<fnvars, jobvars, gwvars, txtvars, keyvars>>
notkey  == <<fnvars, jobvars, gwvars, txtvars, grpvars>>

----------------------------------------------------------------------------
\* Bounds of the model
MaxFiles  == 2      \* files of one group
MaxPage   == 2      \* largest page number parsed from a file name
MaxGroups == 2      \* document groups in the archives uploaded, all jobs together

\* config.py
JSON_CORRECTION_ATTEMPTS == 3

None   == [none |-> TRUE]       \* Python None

Range(s) == {s[i] : i \in DOMAIN s}

RECURSIVE SeqsUpTo(_, _)
SeqsUpTo(S, n) ==
    IF n = 0 THEN {<<>>}
    ELSE LET shorter == SeqsUpTo(S, n - 1)
         IN  shorter \cup {Append(s, x) : s \in {t \in shorter : Len(t) = n - 1}, x \in S}

----------------------------------------------------------------------------
\* config.DOCUMENT_FIELDS: DocumentType -> section name -> list of field
\* definitions (abridged to a few fields per section; only the names matter).
DOCUMENT_FIELDS ==
    [CRL     |-> [shape |-> "dict",
                  items |-> [ApplicantInfo        |-> <<"APPLICANT NAME">>,
                             GoodsAndShippingInfo |-> <<"INVOICE NO", "HS CODE">>]],
     INVOICE |-> [shape |-> "dict",
                  items |-> [AllFields |-> <<"INVOICE NO", "HS CODE">>]]]

RegistryTypes == DOMAIN DOCUMENT_FIELDS

\* The value a list of field definitions has in Python.
FieldList(names) == [shape |-> "list", items |-> names]

----------------------------------------------------------------------------
\* Characters of the keys that occur (strings are atomic in TLA+).
Chars(k) ==
    CASE k = "HS CODE"           -> <<"H", "S", " ", "C", "O", "D", "E">>
      [] k = "hs_code"           -> <<"h", "s", "_", "c", "o", "d", "e">>
      [] k = "INVOICE NO"        -> <<"I", "N", "V", "O", "I", "C", "E", " ", "N", "O">>
      [] k = "classified_type"   -> <<"c", "l", "a", "s", "s", "i", "f", "i", "e", "d", "_", "t", "y", "p", "e">>
      [] k = "Classified-Type"   -> <<"C", "l", "a", "s", "s", "i", "f", "i", "e", "d", "-", "T", "y", "p", "e">>
      [] k = "confidence"        -> <<"c", "o", "n", "f", "i", "d", "e", "n", "c", "e">>
      [] k = "reasoning"         -> <<"r", "e", "a", "s", "o", "n", "i", "n", "g">>
      [] k = "image_description" -> <<"i", "m", "a", "g", "e", "_", "d", "e", "s", "c", "r", "i", "p", "t", "i", "o", "n">>
      [] k = "image_type"        -> <<"i", "m", "a", "g", "e", "_", "t", "y", "p", "e">>

Lower == <<"a", "c", "d", "e", "f", "g", "h", "i", "l", "m", "n", "o", "p", "r", "s", "t", "y">>
Upper == <<"A", "C", "D", "E", "F", "G", "H", "I", "L", "M", "N", "O", "P", "R", "S", "T", "Y">>

IsAlnum(c) == c \in Range(Lower) \cup Range(Upper) \cup {"V"}

ToUpper(c) ==
    IF c \in Range(Lower)
    THEN Upper[CHOOSE i \in DOMAIN Lower : Lower[i] = c]
    ELSE c

\* re.sub(r'[^a-zA-Z0-9]+', '_', key): each run of other characters becomes one "_".
RECURSIVE CollapseRuns(_, _)
CollapseRuns(s, inRun) ==
    IF s = <<>> THEN <<>>
    ELSE IF IsAlnum(Head(s)) THEN <<Head(s)>> \o CollapseRuns(Tail(s), FALSE)
    ELSE IF inRun THEN CollapseRuns(Tail(s), TRUE)
    ELSE <<"_">> \o CollapseRuns(Tail(s), TRUE)

\* str.strip('_')
RECURSIVE StripUnderscores(_)
StripUnderscores(s) ==
    IF s = <<>> THEN s
    ELSE IF Head(s) = "_" THEN StripUnderscores(Tail(s))
    ELSE IF s[Len(s)] = "_" THEN StripUnderscores(SubSeq(s, 1, Len(s) - 1))
    ELSE s

\* sanitize_key of _parse_llm_json_response: the fingerprint of a key.
sanitize_key(k) ==
    LET s == StripUnderscores(CollapseRuns(Chars(k), FALSE))
    IN  [i \in DOMAIN s |-> ToUpper(s[i])]

\* sanitized_key_map.get(sanitize_key(llm_key), llm_key); the dict comprehension
\* keeps the last expected name of a fingerprint.
OriginalKey(llm_key, expected_field_names) ==
    LET hits == {i \in DOMAIN expected_field_names :
                    sanitize_key(expected_field_names[i]) = sanitize_key(llm_key)}
    IN  IF hits = {} THEN llm_key
        ELSE expected_field_names[CHOOSE i \in hits : \A j \in hits : j <= i]

\* normalized_dict of _parse_llm_json_response: the items of the parsed object
\* in order, a later item replacing an earlier one stored under the same name.
RECURSIVE NormalizedDict(_, _)
NormalizedDict(items, expected_field_names) ==
    IF items = <<>> THEN <<>>
    ELSE LET last == items[Len(items)]
             rest == NormalizedDict(SubSeq(items, 1, Len(items) - 1), expected_field_names)
             key  == OriginalKey(last[1], expected_field_names)
         IN  (key :> last[2]) @@ rest

----------------------------------------------------------------------------
\* JSON values of a model response.
JNull   == [json |-> "null"]
JStr(s) == [json |-> "string", text |-> s]
JNum(n) == [json |-> "number", num |-> n]
\* A JSON object with the keys value, confidence and (when has_reasoning) reasoning.
JEntry(v, c, r) == [json |-> "object", value |-> v, confidence |-> c, has_reasoning |-> r]

\* A cell of a dict that may hold None: Cell(x) or None.
Cell(x) == [cell |-> x]

\* str(value) of process_case_group, on the values that occur.
Str(v) ==
    IF v.json = "string" THEN v.text
    ELSE CASE v.num = 7 -> "7"
           [] OTHER     -> "0"

\* schemas.FieldDetail: value Optional[Any] = None, confidence float in [0, 1],
\* reasoning str (required).
FieldDetailValid(j) ==
    /\ j.json = "object"
    /\ j.confidence.json = "number"
    /\ j.confidence.num \in 0..10
    /\ j.has_reasoning

\* FieldDetail.model_dump(): value is None or the parsed JSON value.
FieldDetailDump(j) ==
    [value      |-> IF j.value = JNull THEN None ELSE j.value,
     confidence |-> j.confidence.num]

\* schemas.create_extraction_model: one Optional[FieldDetail] field, default
\* None, per field definition. Iterating a dict yields its keys, and
\* field['name'] on a key (a str) raises TypeError.
create_extraction_model(fields) ==
    IF fields.shape = "list"
    THEN [kind |-> "extraction", names |-> fields.items]
    ELSE [raise |-> "TypeError"]

ClassificationKeys == {"image_description", "image_type", "classified_type",
                       "confidence", "reasoning"}

\* schemas.ClassificationResponse: five required fields, confidence in [0, 1].
ClassificationResponse == [kind |-> "classification"]

\* schema.model_validate(normalized_dict): TRUE when pydantic accepts the dict.
ModelValidates(schema, d) ==
    IF schema.kind = "classification"
    THEN /\ ClassificationKeys \subseteq DOMAIN d
         /\ \A k \in ClassificationKeys \ {"confidence"} : d[k].json = "string"
         /\ d["confidence"].json = "number"
         /\ d["confidence"].num \in 0..10
    ELSE \A i \in DOMAIN schema.names :
            LET n == schema.names[i]
            IN  n \in DOMAIN d => (d[n] = JNull \/ FieldDetailValid(d[n]))

\* validated_data.model_dump(): exactly the schema's fields; keys the schema
\* does not declare are ignored, absent optional fields are None.
ModelDump(schema, d) ==
    IF schema.kind = "classification"
    THEN [k \in ClassificationKeys |->
            IF k = "confidence" THEN d[k].num ELSE d[k].text]
    ELSE [n \in Range(schema.names) |->
            IF n \in DOMAIN d /\ d[n] # JNull THEN FieldDetailDump(d[n]) ELSE None]

\* _parse_llm_json_response: the text is an object (its items in order) or
\* something json5 rejects; an error result carries the text (lines 83, 86).
_parse_llm_json_response(text, schema, expected_field_names) ==
    IF text.form # "object"
    THEN [error |-> "Parsing/Validation Error", raw_response |-> text]
    ELSE LET d == NormalizedDict(text.items, expected_field_names)
         IN  IF ModelValidates(schema, d) THEN ModelDump(schema, d)
             ELSE [error |-> "Pydantic Validation Error", raw_response |-> text]

IsError(d) == "error" \in DOMAIN d

----------------------------------------------------------------------------
\* list.sort(key=lambda x: x["page"]): a stable sort by page number. A file is
\* modelled by its parsed page number.
RECURSIVE InsertByPage(_, _)
InsertByPage(sorted, p) ==
    IF sorted = <<>> THEN <<p>>
    ELSE IF p < Head(sorted) THEN <<p>> \o sorted
    ELSE <<Head(sorted)>> \o InsertByPage(Tail(sorted), p)

\* The sort left out: the list stays in discovery order.
SortByPage_Unsorted(files) == files

RECURSIVE SortByPage(_)
SortByPage(files) ==
    IF files = <<>> THEN <<>>
    ELSE InsertByPage(SortByPage(SubSeq(files, 1, Len(files) - 1)), files[Len(files)])

\* _prepare_document_files: sorts the list in place and returns it.
_prepare_document_files(files) == SortByPage(files)

\* Orders in which folder_path.glob('*') can yield the files of one group.
DiscoveryOrders == SeqsUpTo(1..MaxPage, MaxFiles) \ {<<>>}

\* APIClient._prepare_request_messages: one content part per file, in list
\* order; a file that cannot be read is skipped.
RECURSIVE KeepReadable(_, _, _)
KeepReadable(files, unreadable, i) ==
    IF i > Len(files) THEN <<>>
    ELSE (IF i \in unreadable THEN <<>> ELSE <<files[i]>>)
         \o KeepReadable(files, unreadable, i + 1)

_prepare_request_messages(files, unreadable) == KeepReadable(files, unreadable, 1)

Renderings(files) ==
    {_prepare_request_messages(files, u) : u \in SUBSET (1..Len(files))}

----------------------------------------------------------------------------
\* What awaiting api_client.call_llm_api gives: an exception, or a text.
Raises == [kind |-> "raise"]
Malformed == [kind |-> "text", form |-> "malformed"]
Object(items) == [kind |-> "text", form |-> "object", items |-> items]
\* An object with words of the model before and after it.
InProse(items) == [kind |-> "text", form |-> "prose", items |-> items]

\* api_client._sanitize_llm_output on these texts: the slice from the first
\* "{" to the last "}" is the object without the words around it; a text
\* without such a slice is returned as it is.
SanitizedForm(text) == IF text.form = "prose" THEN Object(text.items) ELSE text

\* Keys a response may carry for the fields of the harness: the exact names
\* and a case/punctuation variant of one of them.
LLMKeys == <<"INVOICE NO", "HS CODE", "hs_code">>

Reverse(s) == [i \in DOMAIN s |-> s[Len(s) + 1 - i]]

\* Values a response may carry under a key.
LLMValues ==
    { JNull,
      JEntry(JNull, JNum(0), TRUE),
      JEntry(JNull, JNum(5), TRUE),
      JEntry(JStr("a"), JNum(0), TRUE),
      JEntry(JStr("a"), JNum(5), TRUE),
      JEntry(JNum(7), JNum(10), TRUE),
      JEntry(JStr("a"), JNum(15), TRUE) }

RECURSIVE ItemsOf(_, _)
ItemsOf(keys, choice) ==
    IF keys = <<>> THEN <<>>
    ELSE (IF Head(keys) \in DOMAIN choice
          THEN <<<<Head(keys), choice[Head(keys)]>>>> ELSE <<>>)
         \o ItemsOf(Tail(keys), choice)

ExtractionTexts ==
    {Malformed} \cup
    {InProse(<< <<"HS CODE", JEntry(JStr("a"), JNum(5), TRUE)>> >>),
     InProse(<< <<"HS CODE", JEntry(JStr("a"), JNum(15), TRUE)>> >>)} \cup
    { Object(ItemsOf(order, choice)) :
        order \in {LLMKeys, Reverse(LLMKeys)},
        choice \in UNION {[K -> LLMValues] : K \in SUBSET Range(LLMKeys)} }

\* Texts a correction call may return (corrected_text, line 107): fewer
\* values per key than an extraction response.
CorrectedValues ==
    {JNull, JEntry(JStr("a"), JNum(5), TRUE), JEntry(JStr("a"), JNum(15), TRUE)}

CorrectionTexts ==
    {Malformed} \cup
    {InProse(<< <<"HS CODE", JEntry(JStr("a"), JNum(5), TRUE)>> >>)} \cup
    { Object(ItemsOf(LLMKeys, choice)) :
        choice \in UNION {[K -> CorrectedValues] : K \in SUBSET Range(LLMKeys)} }

ClassificationObject(key, t, c) ==
    Object(<< <<key, JStr(t)>>, <<"confidence", JNum(c)>>, <<"reasoning", JStr("r")>>,
              <<"image_description", JStr("d")>>, <<"image_type", JStr("i")>> >>)

ClassifiedTypes == RegistryTypes \cup {"UNKNOWN", "FOO"}

ClassificationTexts ==
    {Malformed}
    \cup {ClassificationObject(k, t, 9) :
            k \in {"classified_type", "Classified-Type"}, t \in ClassifiedTypes}
    \cup {ClassificationObject("classified_type", "CRL", 15)}
    \cup {Object(<< <<"classified_type", JStr("CRL")>>, <<"confidence", JNum(9)>>,
                    <<"reasoning", JStr("r")>> >>)}

----------------------------------------------------------------------------
\* Processing_Status strings are kept as their parts: f"Classification Failed:
\* {err}" is <<"Classification Failed", err>>.
StartsWith(status, prefix) == status[1] = prefix

\* d.get(key): Cell(d[key]) or None.
Get(d, key) == IF key \in DOMAIN d THEN Cell(d[key]) ELSE None

\* process_case_group, lines 226-232: the row before any status is known.
BaseRow(case_id, base_name, cr) ==
    (<<"CASE_ID">> :> Cell(case_id)) @@
    (<<"GROUP_Basename">> :> Cell(base_name)) @@
    (<<"CLASSIFIED_Type">> :> Get(cr, "classified_type")) @@
    (<<"CLASSIFICATION_Confidence">> :> Get(cr, "confidence")) @@
    (<<"CLASSIFICATION_Reasoning">> :> Get(cr, "reasoning"))

\* process_case_group, line 234: the group ends without extraction.
ClassificationEnds(cr) ==
    \/ IsError(cr)
    \/ cr["classified_type"] \notin RegistryTypes

\* Line 236 left out: UNKNOWN is reported like any unsupported type.
ClassificationStatus_NoUnknown(cr) ==
    <<"Classification Failed", IF IsError(cr) THEN cr["error"] ELSE "Unsupported Type">>

\* process_case_group, lines 235-236.
ClassificationStatus(cr) ==
    IF ~IsError(cr) /\ cr["classified_type"] = "UNKNOWN"
    THEN <<"Classified as UNKNOWN">>
    ELSE <<"Classification Failed",
           IF IsError(cr) THEN cr["error"] ELSE "Unsupported Type">>

\* process_case_group, lines 234-238: the row of a group that ends at classification.
ClassificationRow(case_id, base_name, cr) ==
    (<<"Processing_Status">> :> Cell(ClassificationStatus(cr)))
    @@ BaseRow(case_id, base_name, cr)

\* Step 2 taking every expected name for missing.
MissingFields_All(er, expected_field_names) == expected_field_names

\* _extract_data_from_document, step 2: the expected names whose entry is None,
\* in the order of the dict.
RECURSIVE MissingFields(_, _)
MissingFields(er, expected_field_names) ==
    IF expected_field_names = <<>> THEN <<>>
    ELSE (IF er[Head(expected_field_names)] = None
          THEN <<Head(expected_field_names)>> ELSE <<>>)
         \o MissingFields(er, Tail(expected_field_names))

\* The merge without the test of line 213: a None of the re-ask is stored too.
MergeReask_NoneOverwrites(er, rr) ==
    IF IsError(rr) THEN er
    ELSE [f \in DOMAIN er \cup DOMAIN rr |-> IF f \in DOMAIN rr THEN rr[f] ELSE er[f]]

\* The merge keeping, of two entries of a field, the one of higher confidence.
MergeReask_HigherConfidence(er, rr) ==
    IF IsError(rr) THEN er
    ELSE [f \in DOMAIN er \cup DOMAIN rr |->
            IF f \in DOMAIN rr /\ rr[f] # None
               /\ (er[f] = None \/ rr[f].confidence >= er[f].confidence)
            THEN rr[f] ELSE er[f]]

\* _extract_data_from_document, lines 210-216: the merge of the re-ask result.
MergeReask(er, rr) ==
    IF IsError(rr) THEN er
    ELSE [f \in DOMAIN er \cup DOMAIN rr |->
            IF f \in DOMAIN rr /\ rr[f] # None THEN rr[f] ELSE er[f]]

\* Line 218 reporting Success whatever was missing.
ExtractionStatus_AlwaysSuccess(missing) == <<"Success">>

\* _extract_data_from_document, line 218.
ExtractionStatus(missing) ==
    IF missing = <<>> THEN <<"Success">> ELSE <<"Partial Success", "(After Re-ask)">>

\* process_case_group, lines 252-263: the three columns of one field.
FieldColumns(classified_type, field_name, er) ==
    LET field_data == IF field_name \in DOMAIN er THEN er[field_name] ELSE None
    IN  IF field_data # None
        THEN (<<classified_type, field_name, "Value">> :>
                 (IF field_data.value # None THEN Cell(Str(field_data.value)) ELSE None))
             @@ (<<classified_type, field_name, "Confidence">> :> Cell(field_data.confidence))
             @@ (<<classified_type, field_name, "Reasoning">> :> Cell("reasoning"))
        ELSE (<<classified_type, field_name, "Value">> :> None)
             @@ (<<classified_type, field_name, "Confidence">> :> Cell(0))
             @@ (<<classified_type, field_name, "Reasoning">> :>
                    Cell("Field was not returned by the LLM."))

RECURSIVE AllFieldColumns(_, _, _)
AllFieldColumns(classified_type, names, er) ==
    IF names = <<>> THEN <<>>
    ELSE FieldColumns(classified_type, Head(names), er)
         @@ AllFieldColumns(classified_type, Tail(names), er)

\* process_case_group, lines 248-264: the row after _extract_data_from_document
\* returned er.
ExtractionRow(row, classified_type, names, er) ==
    IF "_overall_status" \in DOMAIN er
    THEN (<<"Processing_Status">> :>
             Cell(<<"Extraction Failed", er["_overall_status"]["error"]>>)) @@ row
    ELSE (<<"Processing_Status">> :> Cell(er["_extraction_status"]))
         @@ AllFieldColumns(classified_type, names, er) @@ row

----------------------------------------------------------------------------
\* config.EXCEL_COLUMN_ORDER, abridged to the columns of the modelled fields:
\* the core columns, the _Value column of each field, then the status and
\* classification columns.
EXCEL_COLUMN_ORDER ==
    << <<"CASE_ID">>, <<"GROUP_Basename">>, <<"CLASSIFIED_Type">>,
       <<"CRL", "INVOICE NO", "Value">>, <<"CRL", "HS CODE", "Value">>,
       <<"INVOICE", "INVOICE NO", "Value">>, <<"INVOICE", "HS CODE", "Value">>,
       <<"Processing_Status">>, <<"CLASSIFICATION_Confidence">>,
       <<"CLASSIFICATION_Reasoning">> >>

\* _append_to_csv writing the header with every append.
_append_to_csv_HeaderAlways(file, row, column_order) ==
    LET record == [c \in Range(column_order) |-> IF c \in DOMAIN row THEN row[c] ELSE None]
    IN  file \o <<[kind |-> "header", columns |-> column_order],
                  [kind |-> "record", columns |-> column_order, cells |-> record]>>

\* _append_to_csv: the one-row frame gets a None column for every name of
\* column_order the row lacks (lines 33-35), is cut to the names of
\* column_order in that order (lines 37-38) and is appended to the file, with
\* a header line when the file is new (lines 40-47). A file is the sequence of
\* its lines, <<>> when it does not exist; a line carries its columns in
\* order and the cell of each.
_append_to_csv(file, row, column_order) ==
    LET df     == [c \in DOMAIN row \cup Range(column_order) |->
                      IF c \in DOMAIN row THEN row[c] ELSE None]
        final_ordered_cols == SelectSeq(column_order, LAMBDA c : c \in DOMAIN df)
        record == [c \in Range(final_ordered_cols) |-> df[c]]
        header == IF file = <<>>
                  THEN <<[kind |-> "header", columns |-> final_ordered_cols]>>
                  ELSE <<>>
    IN  file \o header
             \o <<[kind |-> "record", columns |-> final_ordered_cols, cells |-> record]>>

----------------------------------------------------------------------------
\* FnSpec: the functions of processing.py that call the model, entered on
\* inputs drawn from bounded sets.

\* A call that returned a text, as what _parse_llm_json_response makes of it.
Parsed(r) == [kind |-> "parsed", result |-> r]

\* The order-preserving sub-lists of a list.
RECURSIVE SubLists(_)
SubLists(s) ==
    IF s = <<>> THEN {<<>>}
    ELSE LET rest == SubLists(Tail(s))
         IN  rest \cup {<<Head(s)>> \o r : r \in rest}

\* Field lists _extract_data_from_document is entered with.
HarnessFieldLists == {<<"INVOICE NO", "HS CODE">>, <<"HS CODE">>}

\* The outcomes of a call whose text is parsed against the schema of the
\* field list names with the expected names expected: every text of
\* ExtractionTexts parsed, or an exception.
ExtractionParses ==
    [names \in HarnessFieldLists |->
        [expected \in SubLists(names) |->
            {_parse_llm_json_response(
                 t, create_extraction_model(FieldList(names)), expected) :
               t \in ExtractionTexts}]]

ExtractionOutcomes(names, expected) ==
    {Raises} \cup {Parsed(r) : r \in ExtractionParses[names][expected]}

\* The outcomes of a correction call, parsed as line 108 does.
CorrectionParses ==
    [names \in HarnessFieldLists |->
        {_parse_llm_json_response(t, create_extraction_model(FieldList(names)), names) :
           t \in CorrectionTexts}]

CorrectionOutcomes(names) == {Raises} \cup {Parsed(r) : r \in CorrectionParses[names]}

\* An error result without its raw_response.
WithoutText(r) == IF IsError(r) THEN [error |-> r.error] ELSE r

\* The outcomes of the re-ask call: lines 210-216 read of an error result
\* only that it is one, so its raw_response is left out.
ReaskParses ==
    [names \in HarnessFieldLists |->
        [expected \in SubLists(names) |->
            {WithoutText(r) : r \in ExtractionParses[names][expected]}]]

ReaskOutcomes(names, expected) ==
    {Raises} \cup {Parsed(r) : r \in ReaskParses[names][expected]}

ClassificationOutcomes ==
    {Raises} \cup
    {Parsed(_parse_llm_json_response(
                t, ClassificationResponse,
                <<"classified_type", "confidence", "reasoning">>)) :
       t \in ClassificationTexts}

\* The classification result process_case_group holds when it extracts.
HarnessClassResult ==
    _parse_llm_json_response(ClassificationObject("classified_type", "INVOICE", 9),
                             ClassificationResponse,
                             <<"classified_type", "confidence", "reasoning">>)

FnInit ==
    /\ pc = "discovered"
    /\ document_files \in DiscoveryOrders
    /\ fields_to_extract \in HarnessFieldLists
    /\ class_result \in {None, HarnessClassResult}
    /\ attempts_left = 0
    /\ malformed_json_text = None
    /\ extraction_result = None
    /\ missing_fields = <<>>
    /\ before_reask = None
    /\ reask_result = None
    /\ result_row = None
    /\ calls = <<>>
    /\ rendered = <<>>
    /\ output_csv = <<>>

\* _group_files_by_base_name, lines 128-129: each group's list is sorted; the
\* group is then handed to one of the two functions.
GroupFiles ==
    /\ pc = "discovered"
    /\ document_files' = SortByPage(document_files)
    /\ pc' = IF class_result = None THEN "classify_entry" ELSE "extract_entry"
    /\ UNCHANGED <<fields_to_extract, attempts_left, extraction_result, missing_fields,
                   before_reask, reask_result, class_result, result_row, calls, rendered>>
    /\ UNCHANGED <<malformed_json_text, output_csv, notfn>>

\* The call api_client.call_llm_api(prompt, docs) is issued.
IssueCall(kind, docs) ==
    /\ calls' = Append(calls, kind)
    /\ rendered' \in Renderings(docs)

\* _classify_document_type, lines 133-140, up to the await.
ClassifyIssue ==
    /\ pc = "classify_entry"
    /\ document_files' = _prepare_document_files(document_files)
    /\ IssueCall("classification", document_files')
    /\ pc' = "classify_call"
    /\ UNCHANGED <<fields_to_extract, attempts_left, extraction_result, missing_fields,
                   before_reask, reask_result, class_result, result_row>>
    /\ UNCHANGED <<malformed_json_text, output_csv, notfn>>

\* _classify_document_type, lines 140-142: the call raises, or its text is parsed.
ClassifyReturn ==
    /\ pc = "classify_call"
    /\ \E o \in ClassificationOutcomes :
          IF o = Raises
          THEN /\ pc' = "raised"
               /\ UNCHANGED class_result
          ELSE /\ pc' = "classified"
               /\ class_result' = o.result
    /\ UNCHANGED <<document_files, fields_to_extract, attempts_left, extraction_result,
                   missing_fields, before_reask, reask_result, result_row, calls, rendered>>
    /\ UNCHANGED <<malformed_json_text, output_csv, notfn>>

\* process_case_group handing a classification response that failed to parse
\* to the correction loop.
AfterClassify_CorrectsClassification ==
    /\ pc = "classified"
    /\ IF IsError(class_result)
       THEN /\ pc' = "correct_call"
            /\ attempts_left' = JSON_CORRECTION_ATTEMPTS
            /\ calls' = Append(calls, "correction")
            /\ UNCHANGED result_row
       ELSE IF ClassificationEnds(class_result)
       THEN /\ pc' = "returned_early"
            /\ result_row' = ClassificationRow("CaseA", "Invoice", class_result)
            /\ UNCHANGED <<attempts_left, calls>>
       ELSE /\ pc' = "extract_entry"
            /\ UNCHANGED <<result_row, attempts_left, calls>>
    /\ UNCHANGED <<document_files, fields_to_extract, extraction_result,
                   missing_fields, before_reask, reask_result, class_result, rendered>>
    /\ UNCHANGED <<malformed_json_text, output_csv, notfn>>

\* process_case_group, lines 226-246, after _classify_document_type returned:
\* the group ends with the row of lines 234-238, or goes on to extraction
\* (with the field list the function was entered with).
AfterClassify ==
    /\ pc = "classified"
    /\ IF ClassificationEnds(class_result)
       THEN /\ pc' = "returned_early"
            /\ result_row' = ClassificationRow("CaseA", "Invoice", class_result)
       ELSE /\ pc' = "extract_entry"
            /\ UNCHANGED result_row
    /\ UNCHANGED <<document_files, fields_to_extract, attempts_left, extraction_result,
                   missing_fields, before_reask, reask_result, class_result, calls,
                   rendered>>
    /\ UNCHANGED <<malformed_json_text, output_csv, notfn>>

\* _extract_data_from_document, lines 151-163, up to the await.
ExtractIssue ==
    /\ pc = "extract_entry"
    /\ document_files' = _prepare_document_files(document_files)
    /\ IssueCall("extraction", document_files')
    /\ pc' = "extract_call"
    /\ UNCHANGED <<fields_to_extract, attempts_left, extraction_result, missing_fields,
                   before_reask, reask_result, class_result, result_row>>
    /\ UNCHANGED <<malformed_json_text, output_csv, notfn>>

HarnessRow == BaseRow("CaseA", "Invoice", class_result)

\* process_case_group returns the row built from er (lines 248-264).
ReturnRow(er) ==
    /\ pc' = "returned"
    /\ extraction_result' = er
    /\ result_row' = ExtractionRow(HarnessRow, class_result["classified_type"],
                                   fields_to_extract, er)

\* _extract_data_from_document, lines 175-177: extraction failed for good.
FailExtraction(err) ==
    /\ ReturnRow([_overall_status |-> err])
    /\ UNCHANGED <<attempts_left, missing_fields, before_reask, calls, rendered>>

\* _correct_json_with_llm giving up one attempt late (line 94 testing < 0).
Correct_OneMore(left) ==
    IF left < 0
    THEN FailExtraction([error |-> "Max JSON correction attempts reached"])
    ELSE /\ pc' = "correct_call"
         /\ attempts_left' = left
         /\ calls' = Append(calls, "correction")
         /\ rendered' = <<>>
         /\ UNCHANGED <<extraction_result, missing_fields, before_reask, result_row>>

\* _correct_json_with_llm, lines 94-107: no attempt left, or the next
\* correction call is issued (without document files).
Correct(left) ==
    IF left <= 0
    THEN FailExtraction([error |-> "Max JSON correction attempts reached"])
    ELSE /\ pc' = "correct_call"
         /\ attempts_left' = left
         /\ calls' = Append(calls, "correction")
         /\ rendered' = <<>>
         /\ UNCHANGED <<extraction_result, missing_fields, before_reask, result_row>>

\* _extract_data_from_document, lines 179-219 with er parsed without error:
\* the missing fields are re-asked, or the result is final.
Step2(er) ==
    LET missing == MissingFields(er, fields_to_extract)
    IN  IF missing # <<>>
        THEN /\ pc' = "reask_call"
             /\ extraction_result' = er
             /\ missing_fields' = missing
             /\ before_reask' = er
             /\ IssueCall("reask", document_files)
             /\ UNCHANGED <<attempts_left, result_row>>
        ELSE /\ ReturnRow(er @@ [_extraction_status |-> ExtractionStatus(missing)])
             /\ missing_fields' = missing
             /\ UNCHANGED <<attempts_left, before_reask, calls, rendered>>

\* _extract_data_from_document, lines 163-177: the initial extraction call ends.
ExtractReturn ==
    /\ pc = "extract_call"
    /\ \E o \in ExtractionOutcomes(fields_to_extract, fields_to_extract) :
          IF o = Raises
          THEN /\ pc' = "raised"
               /\ UNCHANGED <<attempts_left, malformed_json_text, extraction_result,
                              missing_fields, before_reask, result_row, calls, rendered>>
          ELSE IF IsError(o.result)
               THEN /\ Correct(JSON_CORRECTION_ATTEMPTS)
                    /\ malformed_json_text' =
                          IF pc' = "correct_call" THEN o.result.raw_response ELSE None
               ELSE /\ Step2(o.result)
                    /\ malformed_json_text' = None
    /\ UNCHANGED <<document_files, fields_to_extract, reask_result, class_result>>
    /\ UNCHANGED <<output_csv, notfn>>

\* _correct_json_with_llm, lines 106-117: a correction call ends.
CorrectReturn ==
    /\ pc = "correct_call"
    /\ \E o \in CorrectionOutcomes(fields_to_extract) :
          IF o = Raises
          THEN /\ FailExtraction([error |-> "Correction process error"])
               /\ malformed_json_text' = None
          ELSE IF IsError(o.result)
               THEN /\ Correct(attempts_left - 1)
                    /\ malformed_json_text' =
                          IF pc' = "correct_call" THEN o.result.raw_response ELSE None
               ELSE /\ Step2(o.result)
                    /\ malformed_json_text' = None
    /\ UNCHANGED <<document_files, fields_to_extract, reask_result, class_result>>
    /\ UNCHANGED <<output_csv, notfn>>

\* _extract_data_from_document, lines 207-219: the re-ask call ends.
ReaskReturn ==
    /\ pc = "reask_call"
    /\ \E o \in ReaskOutcomes(fields_to_extract, missing_fields) :
          IF o = Raises
          THEN /\ pc' = "raised"
               /\ UNCHANGED <<extraction_result, result_row, reask_result>>
          ELSE /\ reask_result' = o.result
               /\ ReturnRow(MergeReask(extraction_result, o.result)
                            @@ [_extraction_status |-> ExtractionStatus(missing_fields)])
    /\ UNCHANGED <<document_files, fields_to_extract, attempts_left, missing_fields,
                   before_reask, class_result, calls, rendered>>
    /\ UNCHANGED <<malformed_json_text, output_csv, notfn>>

\* process_zip_file_async, lines 314-316: the row the task returned is
\* appended to the job's output file.
AppendRow ==
    /\ pc = "returned"
    /\ pc' = "appended"
    /\ output_csv' = _append_to_csv(output_csv, result_row, EXCEL_COLUMN_ORDER)
    /\ UNCHANGED <<document_files, fields_to_extract, attempts_left, extraction_result,
                   missing_fields, before_reask, reask_result, class_result, result_row,
                   calls, rendered>>
    /\ UNCHANGED <<malformed_json_text, notfn>>

FnNext ==
    \/ GroupFiles
    \/ ClassifyIssue
    \/ ClassifyReturn
    \/ AfterClassify
    \/ ExtractIssue
    \/ ExtractReturn
    \/ CorrectReturn
    \/ ReaskReturn
    \/ AppendRow

----------------------------------------------------------------------------
\* Spec: the service.

Jobs == {"j1", "j2"}

\* What an uploaded zip can hold: it cannot be extracted, it holds no file
\* with a supported extension, or its case folders hold n document groups
\* (n = 0: the only match of rglob is a directory named like a document).
Archives ==
    {[kind |-> "corrupt"], [kind |-> "no_documents"]}
    \cup {[kind |-> "groups", n |-> n] : n \in 0..MaxGroups}

\* process_zip_file_async, lines 327-328.
NoDataFile ==
    << [kind |-> "header", columns |-> << <<"Status">> >>],
       [kind |-> "record", columns |-> << <<"Status">> >>,
        cells |-> (<<"Status">> :> Cell("No data was processed."))] >>

NoJob == None

\* schemas.JobStatus as create_upload_file constructs it.
QueuedJob ==
    [status |-> "Queued", details |-> [text |-> "Job has been queued for processing."],
     total_groups |-> 0, groups_processed |-> 0,
     progress_percent |-> [num |-> 0, den |-> 1], result_path |-> None]

JobInit ==
    /\ job_statuses = [j \in Jobs |-> NoJob]
    /\ archive = [j \in Jobs |-> None]
    /\ task = [j \in Jobs |-> <<>>]
    /\ completed = [j \in Jobs |-> <<>>]
    /\ awaited = [j \in Jobs |-> 0]
    /\ csv = [j \in Jobs |-> <<>>]
    /\ status_log = [j \in Jobs |-> <<>>]

\* The document groups an archive holds, and those of the jobs in js.
GroupsIn(a) == IF a # None /\ a.kind = "groups" THEN a.n ELSE 0

RECURSIVE GroupsUploaded(_)
GroupsUploaded(js) ==
    IF js = {} THEN 0
    ELSE LET j == CHOOSE x \in js : TRUE
         IN  GroupsIn(archive[j]) + GroupsUploaded(js \ {j})

\* main.create_upload_file: the upload is saved and the job registered.
create_upload_file(j) ==
    /\ job_statuses[j] = NoJob
    /\ \E a \in Archives :
          /\ GroupsIn(a) + GroupsUploaded(Jobs) <= MaxGroups
          /\ archive' = [archive EXCEPT ![j] = a]
    /\ job_statuses' = [job_statuses EXCEPT ![j] = QueuedJob]
    /\ status_log' = [status_log EXCEPT ![j] = Append(@, QueuedJob.status)]
    /\ UNCHANGED <<task, completed, awaited, csv>>
    /\ UNCHANGED notjob

\* main.run_processing_job, lines 91-95: process_zip_file_async returned.
JobCompleted(job, path) ==
    [job EXCEPT !.status = "Completed",
                !.details = [text |-> "Processing finished successfully."],
                !.progress_percent = [num |-> 100, den |-> 1],
                !.result_path = Cell(path)]

\* One JobStatus object shared by the registered jobs.
WithJob_SharedObject(j, job) ==
    [k \in Jobs |-> IF job_statuses[k] = NoJob THEN NoJob ELSE job]

\* process_zip_file_async, line 268, and run_processing_job, lines 92-100:
\* the JobStatus that is written is the one registered under job_id; the
\* registry with that entry written.
WithJob(j, job) == [job_statuses EXCEPT ![j] = job]

\* The failure reported as a completion.
JobFailed_AsCompleted(job, e) ==
    [job EXCEPT !.status = "Completed",
                !.details = [text |-> "A critical error occurred", error |-> e]]

\* main.run_processing_job, lines 97-100: process_zip_file_async raised.
JobFailed(job, e) ==
    [job EXCEPT !.status = "Failed",
                !.details = [text |-> "A critical error occurred", error |-> e]]

\* main.run_processing_job with process_zip_file_async, lines 268-312, up to
\* the first await: the archive is extracted and searched; the job fails, or
\* total_groups is set and one task per group is created. Without tasks the
\* function returns at once.
run_processing_job(j) ==
    /\ job_statuses[j] # NoJob
    /\ job_statuses[j].status = "Queued"
    /\ LET a == archive[j]
           job == job_statuses[j]
       IN  IF a.kind = "corrupt"
           THEN /\ job_statuses' = WithJob(j, JobFailed(job, "BadZipFile"))
                /\ status_log' = [status_log EXCEPT ![j] =
                                     Append(@, JobFailed(job, "BadZipFile").status)]
                /\ UNCHANGED <<task, csv>>
           ELSE IF a.kind = "no_documents"
           THEN /\ job_statuses' = WithJob(j, JobFailed(job, "ValueError"))
                /\ status_log' = [status_log EXCEPT ![j] =
                                     Append(@, JobFailed(job, "ValueError").status)]
                /\ UNCHANGED <<task, csv>>
           ELSE LET processing ==
                        [job EXCEPT !.status = "Processing",
                                    !.total_groups = a.n,
                                    !.details = [text |-> "Found document groups to process.",
                                                 total |-> a.n]]
                IN  IF a.n = 0
                    THEN /\ job_statuses' = WithJob(j, JobCompleted(processing, j))
                         /\ status_log' = [status_log EXCEPT ![j] =
                                              @ \o <<processing.status,
                                                     JobCompleted(processing, j).status>>]
                         /\ csv' = [csv EXCEPT ![j] = NoDataFile]
                         /\ UNCHANGED task
                    ELSE /\ job_statuses' = WithJob(j, processing)
                         /\ status_log' = [status_log EXCEPT ![j] =
                                              Append(@, processing.status)]
                         /\ task' = [task EXCEPT ![j] =
                                        [g \in 1..a.n |->
                                            [pc |-> "created", outcome |-> None, row |-> None]]]
                         /\ csv' = [csv EXCEPT ![j] = <<>>]
    /\ UNCHANGED <<archive, completed, awaited>>
    /\ UNCHANGED notjob

\* process_case_group with _classify_document_type, lines 223-140: the task
\* runs up to the await of the classification call.
TaskStart(j, g) ==
    /\ g \in DOMAIN task[j]
    /\ task[j][g].pc = "created"
    /\ task' = [task EXCEPT ![j][g].pc = "classify_call"]
    /\ UNCHANGED <<job_statuses, archive, completed, awaited, csv, status_log>>
    /\ UNCHANGED notjob

\* process_case_group, lines 224-246, from the end of the classification call:
\* the task ends with an exception or a row, or goes on to extraction.
AfterClassification(j, g, o) ==
    IF o = Raises
    THEN [pc |-> "raised", outcome |-> o, row |-> None]
    ELSE LET cr == o.result
         IN  IF ClassificationEnds(cr)
             THEN [pc |-> "done", outcome |-> o,
                   row |-> ClassificationRow("CaseA", g, cr)]
             ELSE IF "raise" \in DOMAIN
                        create_extraction_model(DOCUMENT_FIELDS[cr["classified_type"]])
             THEN [pc |-> "raised", outcome |-> o, row |-> None]
             ELSE [pc |-> "extract_call", outcome |-> o, row |-> None]

TaskClassifyReturn(j, g) ==
    /\ g \in DOMAIN task[j]
    /\ task[j][g].pc = "classify_call"
    /\ \E o \in ClassificationOutcomes :
          LET t == AfterClassification(j, g, o)
          IN  /\ task' = [task EXCEPT ![j][g] = t]
              /\ completed' = IF t.pc \in {"done", "raised"}
                              THEN [completed EXCEPT ![j] = Append(@, g)]
                              ELSE completed
    /\ UNCHANGED <<job_statuses, archive, awaited, csv, status_log>>
    /\ UNCHANGED notjob

\* process_zip_file_async, lines 314-321: the awaited task returned a row.
GroupReturned(job, row) ==
    LET n == job.groups_processed + 1
    IN  [job EXCEPT !.groups_processed = n,
                    !.progress_percent = IF job.total_groups > 0
                                         THEN [num |-> n * 100, den |-> job.total_groups]
                                         ELSE [num |-> 0, den |-> 1],
                    !.details = [text |-> "Processed", processed |-> n,
                                 total |-> job.total_groups,
                                 group |-> row[<<"GROUP_Basename">>]]]

\* The except branch without its increment.
GroupRaised_NotCounted(job) == job

\* The except branch failing the job on the exception of a task.
GroupRaised_FailsJob(job) ==
    [job EXCEPT !.status = "Failed",
                !.details = [text |-> "A critical error occurred", error |-> "task"]]

\* The except branch counting the group twice.
GroupRaised_CountedTwice(job) ==
    [job EXCEPT !.groups_processed = job.groups_processed + 2]

\* process_zip_file_async, lines 323-325: the awaited task raised.
GroupRaised(job) ==
    [job EXCEPT !.groups_processed = job.groups_processed + 1]

\* The loop awaiting the tasks in the order they were dispatched in.
NextCompleted_InDispatchOrder(done) ==
    CHOOSE g \in Range(done) : \A h \in Range(done) : g <= h

\* asyncio.as_completed (line 312): the next future is the one that ended
\* first among those not yet handed out (the head of its done queue).
NextCompleted(done) == Head(done)

\* process_zip_file_async, lines 312-330: one turn of the as_completed loop, on
\* the task that ended first among those not yet awaited. After the last turn
\* the function returns and run_processing_job marks the job.
AwaitNext(j) ==
    /\ job_statuses[j] # NoJob
    /\ job_statuses[j].status = "Processing"
    /\ completed[j] # <<>>
    /\ LET g     == NextCompleted(completed[j])
           t     == task[j][g]
           job   == IF t.pc = "done" THEN GroupReturned(job_statuses[j], t.row)
                    ELSE GroupRaised(job_statuses[j])
           file  == IF t.pc = "done"
                    THEN _append_to_csv(csv[j], t.row, EXCEL_COLUMN_ORDER)
                    ELSE csv[j]
           last  == awaited[j] + 1 = Len(task[j])
       IN  /\ awaited' = [awaited EXCEPT ![j] = @ + 1]
           /\ completed' = [completed EXCEPT ![j] = SelectSeq(@, LAMBDA h : h # g)]
           /\ csv' = [csv EXCEPT ![j] = IF last /\ file = <<>> THEN NoDataFile ELSE file]
           /\ job_statuses' = WithJob(j, IF last THEN JobCompleted(job, j) ELSE job)
           /\ status_log' = [status_log EXCEPT ![j] =
                                IF last THEN Append(@, JobCompleted(job, j).status) ELSE @]
    /\ UNCHANGED <<archive, task>>
    /\ UNCHANGED notjob

JobNext ==
    \/ \E j \in Jobs : create_upload_file(j)
    \/ \E j \in Jobs : run_processing_job(j)
    \/ \E j \in Jobs : \E g \in 1..MaxGroups : TaskStart(j, g)
    \/ \E j \in Jobs : \E g \in 1..MaxGroups : TaskClassifyReturn(j, g)
    \/ \E j \in Jobs : AwaitNext(j)

----------------------------------------------------------------------------
\* The variables of the other specification stay as they start.
----------------------------------------------------------------------------
\* GwSpec: APIClient.call_llm_with_parsing (api_client.py), called by
\* MaxCallers concurrent callers of the one APIClient of processing.py.

\* config.py
API_MAX_RETRIES == 50
API_CONCURRENCY_LIMIT == 1

MaxCallers == 2     \* coroutines calling the gateway at the same time
Callers == 1..MaxCallers

\* What one remote attempt (lines 101-109) ends with: a parsed object, an
\* APIConnectionError, an APIStatusError of the given status (the 429 with or
\* without a Retry-After header), a ValidationError, or a response without
\* parsed object (TypeError, line 109).
Responses ==
    {"parsed", "connection_error", "status_429", "status_429_retry_after",
     "status_503", "status_400", "validation_error", "no_parsed_object"}

\* The delay the remote asks for with the response, in seconds, or None.
RetryAfterSeconds == 7
RetryAfter(r) ==
    IF r = "status_429_retry_after" THEN [seconds |-> RetryAfterSeconds] ELSE None

\* config.py, in tenths: 1.5
EXPONENTIAL_BACKOFF_FACTOR == 15

\* Line 158: the delay EXPONENTIAL_BACKOFF_FACTOR ** attempt, kept as its
\* factor and exponent (1.5 ** 49 is no 32-bit integer; no power of 1.5 is a
\* whole number of seconds other than 1.5 ** 0).
Backoff(attempt) == [factor |-> EXPONENTIAL_BACKOFF_FACTOR, exponent |-> attempt]

\* The transport/availability failures: connection error, 429, 5xx.
TransportFailures ==
    {"connection_error", "status_429", "status_429_retry_after", "status_503"}

\* The except clause of line 125 catching whatever is not a parsed response.
IsAPIError_AnyFailure(r) == r # "parsed"

\* The except clause of line 125: (APIConnectionError, APIStatusError).
IsAPIError(r) ==
    r \in {"connection_error", "status_429", "status_429_retry_after", "status_503",
           "status_400"}

\* The retry loop without retries.
AttemptBudget_NoRetry(is_correction) == 1

\* The retry loop running once more than configured.
AttemptBudget_OneMore(is_correction) ==
    IF is_correction THEN 1 ELSE API_MAX_RETRIES + 1

\* Lines 98 and 127: API_MAX_RETRIES if not is_correction else 1.
AttemptBudget(is_correction) == IF is_correction THEN 1 ELSE API_MAX_RETRIES

\* The semaphore admitting whoever asks.
CanAcquire_Always(value) == TRUE

\* The semaphore admitting a caller also when every slot holder is asleep.
CanAcquire_WhileHoldersSleep(value) ==
    \/ value > 0
    \/ /\ \E c \in Callers : inv[c].pc = "sleeping"
       /\ \A c \in Callers : inv[c].pc \notin {"attempting", "returning"}

\* asyncio.Semaphore.acquire (line 87) takes a slot without waiting.
CanAcquire(value) == value > 0

\* An invocation: pc is where the coroutine stands, attempt the loop variable;
\* attempts, sleeps, first, last and transport_only record what happened so
\* far (remote attempts made, backoff sleeps slept, first and latest response,
\* whether every failed attempt was a transport failure); wait is the delay
\* of the sleep in progress.
NoInvocation ==
    [pc |-> "idle", is_correction |-> FALSE, attempt |-> 0, attempts |-> 0,
     sleeps |-> 0, first |-> "none", last |-> "none", transport_only |-> TRUE,
     wait |-> None, result |-> "none"]

GwIdle ==
    /\ sem = API_CONCURRENCY_LIMIT
    /\ inv = [c \in Callers |-> NoInvocation]

\* A caller calls call_llm_with_parsing: line 87, before the slot is taken.
Call(c) ==
    /\ inv[c].pc = "idle"
    /\ \E b \in BOOLEAN :
          inv' = [inv EXCEPT ![c] = [NoInvocation EXCEPT !.pc = "waiting",
                                                         !.is_correction = b]]
    /\ UNCHANGED sem
    /\ UNCHANGED notgw

\* Lines 160 and 98: the loop is entered for the given value of attempt, or
\* it is over and the function returns "All retry attempts failed.".
LoopFrom(i, attempt) ==
    IF attempt < AttemptBudget(i.is_correction)
    THEN [i EXCEPT !.pc = "attempting", !.attempt = attempt]
    ELSE [i EXCEPT !.pc = "returning", !.attempt = attempt, !.result = "all_failed"]

\* Lines 87-98: the slot is taken, the messages are prepared, the loop starts.
Acquire(c) ==
    /\ inv[c].pc = "waiting"
    /\ CanAcquire(sem)
    /\ sem' = sem - 1
    /\ inv' = [inv EXCEPT ![c] = LoopFrom(inv[c], 0)]
    /\ UNCHANGED notgw

\* Lines 100-156: what the invocation does with the response r of the attempt.
AfterResponse(i, r) ==
    LET j == [i EXCEPT !.attempts = i.attempts + 1,
                       !.first = IF i.attempts = 0 THEN r ELSE i.first,
                       !.last = r,
                       !.transport_only =
                           i.transport_only /\ r \in TransportFailures \cup {"parsed"}]
    IN  IF r = "parsed"
        THEN {[j EXCEPT !.pc = "returning", !.result = "payload"]}
        ELSE IF IsAPIError(r)
        THEN IF i.attempt = AttemptBudget(i.is_correction) - 1
             THEN {[j EXCEPT !.pc = "returning", !.result = "api_error"]}
             ELSE {[j EXCEPT !.pc = "sleeping", !.wait = Backoff(i.attempt)]}
        ELSE IF r = "validation_error"
        THEN {[j EXCEPT !.pc = "returning", !.result = "sanitized_payload"],
              [j EXCEPT !.pc = "returning", !.result = "schema_error"]}
        ELSE {[j EXCEPT !.pc = "returning", !.result = "application_error"]}

\* Lines 101-156: the remote attempt ends.
Attempt(c) ==
    /\ inv[c].pc = "attempting"
    /\ \E r \in Responses : \E j \in AfterResponse(inv[c], r) :
          inv' = [inv EXCEPT ![c] = j]
    /\ UNCHANGED sem
    /\ UNCHANGED notgw

\* Line 158: the backoff sleep is over; the loop goes on (line 98).
Wake(c) ==
    /\ inv[c].pc = "sleeping"
    /\ inv' = [inv EXCEPT ![c] =
                 LoopFrom([inv[c] EXCEPT !.sleeps = inv[c].sleeps + 1, !.wait = None],
                          inv[c].attempt + 1)]
    /\ UNCHANGED sem
    /\ UNCHANGED notgw

\* A return that frees the slot only when it returns a payload.
Return_SlotKeptOnError(c) ==
    /\ inv[c].pc = "returning"
    /\ sem' = IF inv[c].result = "payload" THEN sem + 1 ELSE sem
    /\ inv' = [inv EXCEPT ![c] = NoInvocation]
    /\ UNCHANGED notgw

\* The return statement leaves the async with of line 87: the slot is freed.
Return(c) ==
    /\ inv[c].pc = "returning"
    /\ sem' = sem + 1
    /\ inv' = [inv EXCEPT ![c] = NoInvocation]
    /\ UNCHANGED notgw

GwNext ==
    \/ \E c \in Callers : Call(c)
    \/ \E c \in Callers : Acquire(c)
    \/ \E c \in Callers : Attempt(c)
    \/ \E c \in Callers : Wake(c)
    \/ \E c \in Callers : Return(c)

----------------------------------------------------------------------------
\* TxtSpec: raw model texts, as sequences of characters, through
\* _sanitize_llm_output (api_client.py) and through the first lines of
\* _parse_llm_json_response (processing.py).

MaxStr == 3         \* characters inside a JSON string value

Whitespace == {" ", "\n"}

\* s[from:to] of Python for 0 <= from, with to exclusive (0-based).
Slice(s, from, to) == IF to <= from THEN <<>> ELSE SubSeq(s, from + 1, to)

\* str.find / str.rfind of one character: the 0-based index, or -1.
Find(s, ch) ==
    IF \E i \in DOMAIN s : s[i] = ch
    THEN (CHOOSE i \in DOMAIN s : s[i] = ch /\ \A k \in 1..(i - 1) : s[k] # ch) - 1
    ELSE -1

RFind(s, ch) ==
    IF \E i \in DOMAIN s : s[i] = ch
    THEN (CHOOSE i \in DOMAIN s : s[i] = ch /\ \A k \in (i + 1)..Len(s) : s[k] # ch) - 1
    ELSE -1

\* The 1-based position of the first character at or after i that is not
\* whitespace (Len(s) + 1 when there is none).
RECURSIVE SkipWs(_, _)
SkipWs(s, i) ==
    IF i <= Len(s) /\ s[i] \in Whitespace THEN SkipWs(s, i + 1) ELSE i

\* re.sub(r",\s*([}\]])", r"\1", s) from position i on: leftmost matches, not
\* overlapping; a comma, the whitespace after it and a closing bracket are
\* replaced by the bracket.
RECURSIVE SubTrailingCommas(_, _)
SubTrailingCommas(s, i) ==
    IF i > Len(s) THEN <<>>
    ELSE LET k == SkipWs(s, i + 1)
         IN  IF s[i] = "," /\ k <= Len(s) /\ s[k] \in {"}", "]"}
             THEN <<s[k]>> \o SubTrailingCommas(s, k + 1)
             ELSE <<s[i]>> \o SubTrailingCommas(s, i + 1)

\* api_client._sanitize_llm_output, lines 30-42, for a str argument.
_sanitize_llm_output(raw) ==
    LET start_index == Find(raw, "{")
        end_index   == RFind(raw, "}")
    IN  IF start_index = -1 \/ end_index = -1 \/ start_index > end_index
        THEN raw
        ELSE SubTrailingCommas(Slice(raw, start_index, end_index + 1), 1)

\* str.strip().
RECURSIVE RStrip(_)
RStrip(s) ==
    IF s # <<>> /\ s[Len(s)] \in Whitespace THEN RStrip(SubSeq(s, 1, Len(s) - 1)) ELSE s

Strip(s) == LET k == SkipWs(s, 1) IN RStrip(SubSeq(s, k, Len(s)))

\* str.startswith / str.endswith.
StartsWithText(s, prefix) ==
    Len(s) >= Len(prefix) /\ SubSeq(s, 1, Len(prefix)) = prefix

EndsWithText(s, suffix) ==
    Len(s) >= Len(suffix) /\ SubSeq(s, Len(s) - Len(suffix) + 1, Len(s)) = suffix

\* The backtick character (written as a caret in this module).
Backtick  == "^"
Fence     == <<Backtick, Backtick, Backtick>>
FenceJson == Fence \o <<"j", "s", "o", "n">>

\* _parse_llm_json_response, lines 56-60: processed_text.
ProcessedText(raw_text) ==
    LET t == Strip(raw_text)
    IN  IF StartsWithText(t, FenceJson) THEN Strip(Slice(t, 7, Len(t) - 3))
        ELSE IF StartsWithText(t, Fence) THEN Strip(Slice(t, 3, Len(t) - 3))
        ELSE t

\* A parser of JSON over the characters of the model: objects, arrays,
\* strings without escapes, numbers of digits, whitespace. Each operator takes
\* the position it starts at and gives the position after what it parsed, or
\* -1. With json5 set (json5.loads, processing.py:62) a comma may precede a
\* closing bracket and a key may be an identifier; without it the grammar is
\* that of json.loads (model_validate_json, api_client.py:145).
Digits  == {"1", "2"}
Letters == {"a", "j", "s", "o", "n"}

RECURSIVE SkipSet(_, _, _)
SkipSet(s, i, set) ==
    IF i <= Len(s) /\ s[i] \in set THEN SkipSet(s, i + 1, set) ELSE i

\* The position after the string literal opening at i (s[i] is the quote).
RECURSIVE EndOfString(_, _)
EndOfString(s, i) ==
    IF i + 1 > Len(s) THEN -1
    ELSE IF s[i + 1] = "\"" THEN i + 2
    ELSE IF s[i + 1] = "\n" THEN -1
    ELSE EndOfString(s, i + 1)

RECURSIVE JsonValue(_, _, _)
RECURSIVE JsonMembers(_, _, _, _)
RECURSIVE JsonElements(_, _, _, _)

\* The members of an object from position i (after "{" or after a comma, as
\* after_comma says) to the position after its "}".
JsonMembers(s, i, json5, after_comma) ==
    LET k == SkipWs(s, i)
    IN  IF k > Len(s) THEN -1
        ELSE IF s[k] = "}" THEN (IF after_comma /\ ~json5 THEN -1 ELSE k + 1)
        ELSE LET key_end == IF s[k] = "\"" THEN EndOfString(s, k)
                            ELSE IF json5 /\ s[k] \in Letters
                            THEN SkipSet(s, k, Letters \cup Digits)
                            ELSE -1
                 colon   == IF key_end = -1 THEN -1 ELSE SkipWs(s, key_end)
             IN  IF colon = -1 \/ colon > Len(s) \/ s[colon] # ":" THEN -1
                 ELSE LET value_end == JsonValue(s, colon + 1, json5)
                          next      == IF value_end = -1 THEN -1
                                       ELSE SkipWs(s, value_end)
                      IN  IF next = -1 \/ next > Len(s) THEN -1
                          ELSE IF s[next] = "}" THEN next + 1
                          ELSE IF s[next] = ","
                          THEN JsonMembers(s, next + 1, json5, TRUE)
                          ELSE -1

JsonElements(s, i, json5, after_comma) ==
    LET k == SkipWs(s, i)
    IN  IF k > Len(s) THEN -1
        ELSE IF s[k] = "]" THEN (IF after_comma /\ ~json5 THEN -1 ELSE k + 1)
        ELSE LET value_end == JsonValue(s, k, json5)
                 next      == IF value_end = -1 THEN -1 ELSE SkipWs(s, value_end)
             IN  IF next = -1 \/ next > Len(s) THEN -1
                 ELSE IF s[next] = "]" THEN next + 1
                 ELSE IF s[next] = ","
                 THEN JsonElements(s, next + 1, json5, TRUE)
                 ELSE -1

JsonValue(s, i, json5) ==
    LET k == SkipWs(s, i)
    IN  IF k > Len(s) THEN -1
        ELSE IF s[k] = "{" THEN JsonMembers(s, k + 1, json5, FALSE)
        ELSE IF s[k] = "[" THEN JsonElements(s, k + 1, json5, FALSE)
        ELSE IF s[k] = "\"" THEN EndOfString(s, k)
        ELSE IF s[k] \in Digits THEN SkipSet(s, k, Digits)
        ELSE -1

\* The whole text is one JSON value.
IsJson(s, json5) ==
    LET value_end == JsonValue(s, 1, json5)
    IN  value_end # -1 /\ SkipWs(s, value_end) = Len(s) + 1

\* json.loads accepts the text.
ValidJson(s) == IsJson(s, FALSE)

\* _parse_llm_json_response, lines 62-76: json5.loads accepts the text and the
\* value has items(), so no "Parsing/Validation Error" is returned.
ParsesToDict(s) ==
    /\ IsJson(s, TRUE)
    /\ LET k == SkipWs(s, 1) IN s[k] = "{"

\* The raw texts: a JSON object with one member, whose value is a number, an
\* array, an object or a string of up to MaxStr characters, with or without
\* a comma before the closing brace, bare or wrapped in prose or in a code
\* fence that is closed or not.
StringContents == SeqsUpTo({",", "]", "}", "a"}, MaxStr)

Quoted(content) == <<"\"">> \o content \o <<"\"">>

MemberValues ==
    {<<"1">>, <<"[", "1", "]">>, <<"[", "1", ",", "]">>, <<"[", "1", ",", " ", "]">>,
     <<"{", "\"", "a", "\"", ":", "1", ",", "}">>}
    \cup {Quoted(c) : c \in StringContents}

ObjectTexts ==
    {<<"{", "\"", "a", "\"", ":">> \o v \o t \o <<"}">> :
        v \in MemberValues, t \in {<<>>, <<",">>, <<",", "\n">>}}

Wrapped(body) ==
    {body,
     <<"a", " ">> \o body \o <<" ", "a">>,
     FenceJson \o <<"\n">> \o body \o <<"\n">> \o Fence,
     FenceJson \o <<"\n">> \o body,
     Fence \o <<"\n">> \o body \o <<"\n">> \o Fence,
     Fence \o <<"\n">> \o body}

RawTexts == UNION {Wrapped(body) : body \in ObjectTexts}

TxtIdle ==
    /\ txt_pc = "idle"
    /\ raw_response = <<>>
    /\ sanitized_output = <<>>
    /\ resanitized_output = <<>>
    /\ processed_text = <<>>

TxtInit ==
    /\ txt_pc = "raw"
    /\ raw_response \in RawTexts
    /\ sanitized_output = <<>>
    /\ resanitized_output = <<>>
    /\ processed_text = <<>>

\* api_client.py line 141: the text is sanitized.
Sanitize ==
    /\ txt_pc = "raw"
    /\ sanitized_output' = _sanitize_llm_output(raw_response)
    /\ txt_pc' = "sanitized"
    /\ UNCHANGED <<raw_response, resanitized_output, processed_text>>
    /\ UNCHANGED nottxt

\* The sanitized text is sanitized once more.
SanitizeAgain ==
    /\ txt_pc = "sanitized"
    /\ resanitized_output' = _sanitize_llm_output(sanitized_output)
    /\ txt_pc' = "resanitized"
    /\ UNCHANGED <<raw_response, sanitized_output, processed_text>>
    /\ UNCHANGED nottxt

\* processing.py lines 56-60: the text enters _parse_llm_json_response.
StripFences ==
    /\ txt_pc = "raw"
    /\ processed_text' = ProcessedText(raw_response)
    /\ txt_pc' = "processed"
    /\ UNCHANGED <<raw_response, sanitized_output, resanitized_output>>
    /\ UNCHANGED nottxt

TxtNext == Sanitize \/ SanitizeAgain \/ StripFences

----------------------------------------------------------------------------
\* GrpSpec: the files of one case folder through
\* utils.parse_filename_for_grouping and processing._group_files_by_base_name.
\* A file name is its stem, a sequence of characters, and its extension.

DigitChars == <<"0", "1", "2", "3", "4", "5", "6", "7", "8", "9">>

IsDigit(ch) == \E i \in DOMAIN DigitChars : DigitChars[i] = ch

AllDigits(s) == \A i \in DOMAIN s : IsDigit(s[i])

\* int(page_number_str).
RECURSIVE ToInt(_)
ToInt(digits) ==
    IF digits = <<>> THEN 0
    ELSE 10 * ToInt(SubSeq(digits, 1, Len(digits) - 1))
         + (CHOOSE i \in DOMAIN DigitChars : DigitChars[i] = digits[Len(digits)]) - 1

\* re.IGNORECASE on the letters of the model.
LowerChar(ch) ==
    CASE ch = "P" -> "p" [] ch = "A" -> "a" [] ch = "G" -> "g" [] ch = "E" -> "e"
      [] OTHER -> ch

\* The alternative Page of the pattern without a match.
MatchesPageWord_Never(r) == FALSE

\* r starts with the literal Page, whatever the case.
MatchesPageWord(r) ==
    /\ Len(r) >= 4
    /\ <<LowerChar(r[1]), LowerChar(r[2]), LowerChar(r[3]), LowerChar(r[4])>>
          = <<"p", "a", "g", "e">>

\* The digits captured when r, up to the end of the stem, matches
\* (?:[ _]|Page|-)?(\d+)$ and <<>> when it does not.
SuffixDigits(r) ==
    IF r = <<>> THEN <<>>
    ELSE IF r[1] \in {" ", "_", "-"} /\ Len(r) >= 2 /\ AllDigits(Tail(r)) THEN Tail(r)
    ELSE IF MatchesPageWord(r) /\ Len(r) >= 5 /\ AllDigits(SubSeq(r, 5, Len(r)))
    THEN SubSeq(r, 5, Len(r))
    ELSE IF AllDigits(r) THEN r
    ELSE <<>>

\* str.strip(' _-').
RECURSIVE StripSeparators(_)
StripSeparators(s) ==
    IF s = <<>> THEN s
    ELSE IF s[1] \in {" ", "_", "-"} THEN StripSeparators(Tail(s))
    ELSE IF s[Len(s)] \in {" ", "_", "-"} THEN StripSeparators(SubSeq(s, 1, Len(s) - 1))
    ELSE s

UnknownDocument == <<"unknown_document">>

\* utils.parse_filename_for_grouping on the stem of the file name: re.search
\* with the lazy (.*?) finds the shortest prefix after which the rest matches.
parse_filename_for_grouping(name_no_ext) ==
    LET prefixes == {n \in 0..Len(name_no_ext) :
                        SuffixDigits(SubSeq(name_no_ext, n + 1, Len(name_no_ext))) # <<>>}
        matched  == prefixes # {}
        n        == IF matched THEN CHOOSE x \in prefixes : \A y \in prefixes : x <= y
                    ELSE 0
        potential_base_name == SubSeq(name_no_ext, 1, n)
        page_number_str == SuffixDigits(SubSeq(name_no_ext, n + 1, Len(name_no_ext)))
        base_name == IF matched /\ potential_base_name # <<>>
                     THEN StripSeparators(potential_base_name) ELSE name_no_ext
    IN  [base_name   |-> IF base_name = <<>> THEN UnknownDocument ELSE base_name,
         page_number |-> IF matched /\ potential_base_name # <<>>
                         THEN ToInt(page_number_str) ELSE 1]

\* The stems of the model: a base name, empty or not, followed or not by a
\* separator and by a page number.
Inv      == <<"I", "n", "v">>
PageWord == <<"P", "a", "g", "e">>
Bases    == {<<>>, Inv, PageWord}
Separators == {<<>>, <<" ">>, <<"_">>, <<"-">>, PageWord}
PageNumbers == {<<>>} \cup {<<DigitChars[n + 1]>> : n \in 1..MaxPage}

Stems == {b \o sep \o num : b \in Bases, sep \in Separators, num \in PageNumbers} \ {<<>>}

FileNames ==
    {[stem |-> st, ext |-> "pdf"] : st \in Stems}
    \cup {[stem |-> Inv \o <<" ", "1">>, ext |-> "txt"]}

\* parse_filename_for_grouping(doc_file.name) for every file name of the model.
ParsedNames == [st \in {f.stem : f \in FileNames} |-> parse_filename_for_grouping(st)]

SUPPORTED_FILE_EXTENSIONS == {"pdf", "png", "jpg", "jpeg"}

\* _group_files_by_base_name, line 124: the file is taken.
IsDocument(file) == file.ext \in SUPPORTED_FILE_EXTENSIONS

\* _group_files_by_base_name, lines 123-126: the groups after the first n
\* files of the folder, each list in the order of the appends.
RECURSIVE Appended(_, _)
Appended(files, n) ==
    IF n = 0 THEN <<>>
    ELSE LET groups == Appended(files, n - 1)
             parsed == ParsedNames[files[n].stem]
         IN  IF ~IsDocument(files[n]) THEN groups
             ELSE IF parsed.base_name \in DOMAIN groups
             THEN [groups EXCEPT ![parsed.base_name] = Append(@, parsed.page_number)]
             ELSE groups @@ (parsed.base_name :> <<parsed.page_number>>)

\* processing._group_files_by_base_name: every list is sorted by page.
_group_files_by_base_name(files) ==
    LET groups == Appended(files, Len(files))
    IN  [b \in DOMAIN groups |-> SortByPage(groups[b])]

NoGroups == << >>

GrpIdle ==
    /\ grp_pc = "idle"
    /\ folder = <<>>
    /\ placed = <<>>
    /\ doc_groups = NoGroups

GrpInit ==
    /\ grp_pc = "folder"
    /\ folder \in SeqsUpTo(FileNames, MaxFiles) \ {<<>>}
    /\ placed = <<>>
    /\ doc_groups = NoGroups

\* process_zip_file_async calls _group_files_by_base_name on the folder.
GroupFolder ==
    /\ grp_pc = "folder"
    /\ doc_groups' = _group_files_by_base_name(folder)
    /\ placed' = [i \in DOMAIN folder |->
                    IF IsDocument(folder[i])
                    THEN ParsedNames[folder[i].stem] ELSE None]
    /\ grp_pc' = "grouped"
    /\ UNCHANGED folder
    /\ UNCHANGED notgrp

GrpNext == GroupFolder

----------------------------------------------------------------------------
\* KeySpec: the object a response parsed to (json5.loads, line 63) through the
\* key reconciliation and validation of _parse_llm_json_response, and the
\* result through step 2 of _extract_data_from_document.

KeyIdle ==
    /\ key_pc = "idle"
    /\ schema_fields = <<>>
    /\ expected_names = <<>>
    /\ data_dict = <<>>
    /\ normalized_dict = None
    /\ validated_data = None
    /\ reported_missing = <<>>

\* The objects of ExtractionTexts, for the initial call (every field of the
\* schema is expected) and for the re-ask (some of them are).
KeyInit ==
    /\ key_pc = "loaded"
    /\ schema_fields \in HarnessFieldLists
    /\ expected_names \in SubLists(schema_fields) \ {<<>>}
    /\ data_dict \in {t.items : t \in {u \in ExtractionTexts : u.form = "object"}}
    /\ normalized_dict = None
    /\ validated_data = None
    /\ reported_missing = <<>>

\* _parse_llm_json_response, lines 65-76.
Normalize ==
    /\ key_pc = "loaded"
    /\ normalized_dict' = NormalizedDict(data_dict, expected_names)
    /\ key_pc' = "normalized"
    /\ UNCHANGED <<schema_fields, expected_names, data_dict, validated_data,
                   reported_missing>>
    /\ UNCHANGED notkey

\* _parse_llm_json_response, lines 78-83.
Validate ==
    /\ key_pc = "normalized"
    /\ validated_data' =
          _parse_llm_json_response(Object(data_dict),
                                   create_extraction_model(FieldList(schema_fields)),
                                   expected_names)
    /\ key_pc' = "validated"
    /\ UNCHANGED <<schema_fields, expected_names, data_dict, normalized_dict,
                   reported_missing>>
    /\ UNCHANGED notkey

\* _extract_data_from_document, lines 166 and 180-183, on the result of the
\* initial call.
IdentifyMissing ==
    /\ key_pc = "validated"
    /\ expected_names = schema_fields
    /\ ~IsError(validated_data)
    /\ reported_missing' = MissingFields(validated_data, expected_names)
    /\ key_pc' = "examined"
    /\ UNCHANGED <<schema_fields, expected_names, data_dict, normalized_dict,
                   validated_data>>
    /\ UNCHANGED notkey

KeyNext == Normalize \/ Validate \/ IdentifyMissing

FnIdle ==
    /\ pc = "idle"
    /\ document_files = <<>>
    /\ fields_to_extract = <<>>
    /\ attempts_left = 0
    /\ malformed_json_text = None
    /\ extraction_result = None
    /\ missing_fields = <<>>
    /\ before_reask = None
    /\ reask_result = None
    /\ class_result = None
    /\ result_row = None
    /\ calls = <<>>
    /\ rendered = <<>>
    /\ output_csv = <<>>

Init == JobInit /\ FnIdle /\ GwIdle /\ TxtIdle /\ GrpIdle /\ KeyIdle
Next == JobNext
Spec == Init /\ [][Next]_vars

\* The service on the asyncio event loop: a coroutine that can run is run (the
\* background task of a registered job, a created task, the as_completed loop
\* when a task has ended), and every remote call ends. Uploads are up to the
\* clients.
LiveSpec ==
    /\ Spec
    /\ \A j \in Jobs : WF_vars(run_processing_job(j)) /\ WF_vars(AwaitNext(j))
    /\ \A j \in Jobs : \A g \in 1..MaxGroups :
          WF_vars(TaskStart(j, g)) /\ WF_vars(TaskClassifyReturn(j, g))

FnSpecInit == FnInit /\ JobInit /\ GwIdle /\ TxtIdle /\ GrpIdle /\ KeyIdle
FnSpec == FnSpecInit /\ [][FnNext]_vars

GwInit == GwIdle /\ FnIdle /\ JobInit /\ TxtIdle /\ GrpIdle /\ KeyIdle
GwSpec == GwInit /\ [][GwNext]_vars

\* The gateway on the asyncio event loop: a remote attempt ends (the client
\* has a timeout), a sleep ends, a coroutine that can return does, and the
\* semaphore wakes its waiters in the order they came, so a caller that can
\* take a slot again and again gets one.
GwLiveSpec ==
    /\ GwSpec
    /\ \A c \in Callers :
          /\ WF_vars(Attempt(c) \/ Wake(c) \/ Return(c))
          /\ SF_vars(Acquire(c))

TxtSpecInit == TxtInit /\ FnIdle /\ JobInit /\ GwIdle /\ GrpIdle /\ KeyIdle
TxtSpec == TxtSpecInit /\ [][TxtNext]_vars

GrpSpecInit == GrpInit /\ FnIdle /\ JobInit /\ GwIdle /\ TxtIdle /\ KeyIdle
GrpSpec == GrpSpecInit /\ [][GrpNext]_vars

KeySpecInit == KeyInit /\ FnIdle /\ JobInit /\ GwIdle /\ TxtIdle /\ GrpIdle
KeySpec == KeySpecInit /\ [][KeyNext]_vars

----------------------------------------------------------------------------
\* Claims on the service (Spec).

JobEnded(j) ==
    /\ job_statuses[j] # NoJob
    /\ job_statuses[j].status \in {"Completed", "Failed"}

\* The records of job j's output file written for group g.
RowsOfGroup(j, g) ==
    {i \in DOMAIN csv[j] :
        /\ csv[j][i].kind = "record"
        /\ <<"GROUP_Basename">> \in DOMAIN csv[j][i].cells
        /\ csv[j][i].cells[<<"GROUP_Basename">>] = Cell(g)}

\* C1: when a job has ended, the output file holds exactly one row for every
\* group that was dispatched, whatever the outcome of the group's task.
C1_ExactlyOneRowPerGroup ==
    \A j \in Jobs :
        JobEnded(j) => \A g \in DOMAIN task[j] : Cardinality(RowsOfGroup(j, g)) = 1

\* C2: when process_zip_file_async returned without a job-level exception (the
\* job is Completed), groups_processed equals total_groups.
C2_AllGroupsCounted ==
    \A j \in Jobs :
        (job_statuses[j] # NoJob /\ job_statuses[j].status = "Completed")
            => job_statuses[j].groups_processed = job_statuses[j].total_groups

\* C2 witness: a job completed with two groups, one task having returned a row
\* and one having raised.
C2_Witness ==
    \E j \in Jobs :
        /\ job_statuses[j] # NoJob
        /\ job_statuses[j].status = "Completed"
        /\ job_statuses[j].total_groups = 2
        /\ \E g, h \in DOMAIN task[j] : task[j][g].pc = "done" /\ task[j][h].pc = "raised"

TaskEnded(t) == t.pc \in {"done", "raised"}

\* The classification of task t failed: the call raised, its response failed
\* normalization, or the type is neither a registry type nor UNKNOWN.
ClassificationFailed(t) ==
    \/ t.outcome = Raises
    \/ /\ t.outcome # None
       /\ t.outcome # Raises
       /\ \/ IsError(t.outcome.result)
          \/ t.outcome.result["classified_type"] \notin RegistryTypes \cup {"UNKNOWN"}

\* C8: a group whose classification failed ends with a row whose
\* Processing_Status starts with "Classification Failed", and no extraction
\* call is made for it.
C8_ClassificationFailureGivesRow ==
    \A j \in Jobs : \A g \in DOMAIN task[j] :
        ClassificationFailed(task[j][g])
            => /\ task[j][g].pc = "done"
               /\ StartsWith(task[j][g].row[<<"Processing_Status">>].cell,
                             "Classification Failed")

ClassifiedUnknown(t) ==
    /\ t.outcome # None
    /\ t.outcome # Raises
    /\ ~IsError(t.outcome.result)
    /\ t.outcome.result["classified_type"] = "UNKNOWN"

----------------------------------------------------------------------------
\* Claims on the functions (FnSpec).

IsSorted(s) == \A i, k \in DOMAIN s : i < k => s[i] <= s[k]

\* C3: the page list passed to every model call of a group (classification,
\* extraction, re-ask) and the pages rendered into the request are
\* non-decreasing by page number, whatever the discovery order was.
C3_PagesAscending ==
    pc \in {"classify_call", "extract_call", "reask_call"}
        => IsSorted(document_files) /\ IsSorted(rendered)

\* C3 witness: a re-ask is in flight with two pages of different numbers rendered.
C3_Witness ==
    /\ pc = "reask_call"
    /\ calls = <<"extraction", "reask">>
    /\ rendered = <<1, 2>>

\* The fields whose columns process_case_group put in the returned row.
RowFields ==
    IF pc = "returned" /\ "_overall_status" \notin DOMAIN extraction_result
    THEN Range(fields_to_extract) ELSE {}

RowValue(f) == result_row[<<class_result["classified_type"], f, "Value">>]
RowConfidence(f) == result_row[<<class_result["classified_type"], f, "Confidence">>]
RowStatus == result_row[<<"Processing_Status">>].cell

\* C4: in every row of the extraction path, a field's value is null if and
\* only if its confidence is 0.0.
C4_NullIffZeroConfidence ==
    \A f \in RowFields : (RowValue(f) = None) <=> (RowConfidence(f) = Cell(0))

ReaskReturned == pc = "returned" /\ reask_result # None

\* C5: a field holding a non-null entry when the re-ask is issued holds the
\* same entry after the merge when the re-ask result is null for it or the
\* re-ask failed.
C5_MergeKeepsEntryOnNull ==
    ReaskReturned =>
        \A f \in Range(fields_to_extract) :
            (before_reask[f] # None /\ (IsError(reask_result) \/ reask_result[f] = None))
                => extraction_result[f] = before_reask[f]

\* C5 witness: the re-ask filled one field and returned null for another that
\* held an entry, which is still there.
C5_Witness ==
    /\ ReaskReturned
    /\ ~IsError(reask_result)
    /\ \E f, g \in Range(fields_to_extract) :
          /\ before_reask[f] # None /\ reask_result[f] = None
          /\ extraction_result[f] = before_reask[f]
          /\ before_reask[g] = None /\ reask_result[g] # None

\* C6: a field holding a non-null entry from the initial extraction is never
\* overwritten by the re-ask merge.
C6_NeverOverwritten ==
    ReaskReturned =>
        \A f \in Range(fields_to_extract) :
            before_reask[f] # None => extraction_result[f] = before_reask[f]

\* Field f was scored by the extraction and by the re-ask, with different results.
ScoredTwice(f) ==
    /\ ReaskReturned
    /\ ~IsError(reask_result)
    /\ before_reask[f] # None
    /\ reask_result[f] # None
    /\ reask_result[f] # before_reask[f]

OmittedAndNotRecovered(f) ==
    /\ ReaskReturned
    /\ f \in Range(missing_fields)
    /\ extraction_result[f] = None

\* C10: a field omitted by an extraction response that normalized and not
\* recovered by the re-ask is in the row with a null value and confidence 0.0,
\* and the status starts with "Partial Success", not with "Extraction Failed".
C10_OmissionIsPartialSuccess ==
    \A f \in Range(fields_to_extract) :
        OmittedAndNotRecovered(f)
            => /\ f \in RowFields
               /\ RowValue(f) = None
               /\ RowConfidence(f) = Cell(0)
               /\ StartsWith(RowStatus, "Partial Success")

\* C10 witness: the initial response omitted HS CODE, the one re-ask did not
\* recover it, and the row is returned.
C10_Witness ==
    /\ fields_to_extract = <<"INVOICE NO", "HS CODE">>
    /\ OmittedAndNotRecovered("HS CODE")
    /\ calls = <<"extraction", "reask">>
    /\ RowValue("INVOICE NO") # None

----------------------------------------------------------------------------
\* Claims on the gateway (GwSpec).

Returning(c) == inv[c].pc = "returning"

\* C11: an invocation that is not a correction call and met k transport
\* failures in a row and then a parsed response, k < API_MAX_RETRIES, returns
\* the payload; no error value is returned while fewer than API_MAX_RETRIES
\* attempts have failed.
C11_RetriesThenSuccess ==
    \A c \in Callers :
        (Returning(c) /\ ~inv[c].is_correction) =>
            /\ (inv[c].last = "parsed" /\ inv[c].transport_only
                   /\ inv[c].attempts - 1 < API_MAX_RETRIES)
                  => inv[c].result = "payload"
            /\ (inv[c].transport_only /\ inv[c].attempts < API_MAX_RETRIES)
                  => inv[c].result \notin {"api_error", "all_failed"}

\* C11 witness: three transport failures, then the fourth attempt's parsed
\* response is returned.
C11_Witness ==
    \E c \in Callers :
        /\ Returning(c) /\ ~inv[c].is_correction
        /\ inv[c].transport_only /\ inv[c].attempts = 4 /\ inv[c].sleeps = 3
        /\ inv[c].first = "status_503" /\ inv[c].last = "parsed"
        /\ inv[c].result = "payload"

\* Every attempt the invocation made failed with a transport failure.
AllAttemptsFailed(c) ==
    Returning(c) /\ inv[c].transport_only /\ inv[c].last \in TransportFailures

\* C12 as claimed: never more than API_MAX_RETRIES attempts; when every
\* attempt failed with a transport failure, an error value is returned after
\* exactly API_MAX_RETRIES attempts, with no sleep after the last one.
C12_ExactlyMaxRetries ==
    \A c \in Callers :
        /\ inv[c].attempts <= API_MAX_RETRIES
        /\ AllAttemptsFailed(c) =>
              /\ inv[c].result = "api_error"
              /\ inv[c].attempts = API_MAX_RETRIES
              /\ inv[c].sleeps = inv[c].attempts - 1

\* C12 as amended: the same, with one attempt for a correction call.
C12_ExactlyBudget ==
    \A c \in Callers :
        /\ inv[c].attempts <= API_MAX_RETRIES
        /\ AllAttemptsFailed(c) =>
              /\ inv[c].result = "api_error"
              /\ inv[c].attempts = (IF inv[c].is_correction THEN 1 ELSE API_MAX_RETRIES)
              /\ inv[c].sleeps = inv[c].attempts - 1

\* C12 witness: API_MAX_RETRIES attempts failed, the error value is returned.
C12_Witness ==
    \E c \in Callers :
        /\ AllAttemptsFailed(c) /\ ~inv[c].is_correction
        /\ inv[c].attempts = API_MAX_RETRIES
        /\ inv[c].sleeps = API_MAX_RETRIES - 1
        /\ inv[c].result = "api_error"

\* C13: an invocation whose first response is a 4xx status other than 429
\* returns an error value at once: one attempt, no backoff sleep.
C13_NonRetryableEndsAtOnce ==
    \A c \in Callers :
        inv[c].first = "status_400" =>
            /\ Returning(c)
            /\ inv[c].result = "api_error"
            /\ inv[c].attempts = 1
            /\ inv[c].sleeps = 0

Admitted == {c \in Callers : inv[c].pc \in {"attempting", "sleeping", "returning"}}

\* C14: at most API_CONCURRENCY_LIMIT invocations are admitted and not yet
\* returned, and a caller waiting for a slot has made no remote attempt.
C14_ConcurrencyLimit ==
    /\ Cardinality(Admitted) <= API_CONCURRENCY_LIMIT
    /\ \A c \in Callers : inv[c].pc = "waiting" => inv[c].attempts = 0

\* C14 witness: every slot is taken by an invocation that has made attempts
\* while another caller waits.
C14_Witness ==
    /\ sem = 0
    /\ \E c, d \in Callers :
          /\ inv[c].pc = "waiting"
          /\ inv[d].pc = "sleeping" /\ inv[d].attempts >= 1

----------------------------------------------------------------------------
\* Claims on the text functions (TxtSpec).

\* C15: when the sanitized text is valid JSON, sanitizing it again gives the
\* same text.
C15_SanitizationIdempotent ==
    (txt_pc = "resanitized" /\ ValidJson(sanitized_output))
        => resanitized_output = sanitized_output

TrailingCommaObject == <<"{", "\"", "a", "\"", ":", "1", ",", "}">>
RepairedObject      == <<"{", "\"", "a", "\"", ":", "1", "}">>

\* The text opens with a code fence and does not end with one.
UnclosedFence(t) ==
    StartsWithText(Strip(t), Fence) /\ ~EndsWithText(Strip(t), Fence)

\* The text after its opening fence marker.
AfterOpeningFence(t) ==
    LET u == Strip(t)
    IN  IF StartsWithText(u, FenceJson) THEN Strip(Slice(u, 7, Len(u)))
        ELSE Strip(Slice(u, 3, Len(u)))

\* C16: the fenced object with a trailing comma is sanitized to the object
\* without fence and comma, which is valid JSON, and parses in
\* _parse_llm_json_response without an error (so without a correction call);
\* and a text with an opening fence but no closing one keeps every character
\* of its JSON through both functions.
C16_FenceRepair ==
    /\ (txt_pc = "sanitized"
          /\ raw_response = FenceJson \o <<"\n">> \o TrailingCommaObject \o <<"\n">> \o Fence)
          => sanitized_output = RepairedObject /\ ValidJson(sanitized_output)
    /\ (txt_pc = "processed"
          /\ raw_response = FenceJson \o <<"\n">> \o TrailingCommaObject \o <<"\n">> \o Fence)
          => processed_text = TrailingCommaObject /\ ParsesToDict(processed_text)
    /\ (txt_pc = "sanitized" /\ UnclosedFence(raw_response))
          => sanitized_output = SubTrailingCommas(AfterOpeningFence(raw_response), 1)
    /\ (txt_pc = "processed" /\ UnclosedFence(raw_response))
          => processed_text = AfterOpeningFence(raw_response)

----------------------------------------------------------------------------
\* Claims on the grouping (GrpSpec).

\* The page-number suffixes of the claim: digits, optionally preceded by a
\* space, an underscore, a hyphen or the literal Page.
IsSuffix(r) ==
    \E sep \in Separators :
        /\ Len(r) > Len(sep)
        /\ SubSeq(r, 1, Len(sep)) = sep
        /\ AllDigits(SubSeq(r, Len(sep) + 1, Len(r)))

\* The stem is the base b alone or b followed by a page-number suffix.
HasBase(stem, b) ==
    /\ Len(stem) >= Len(b)
    /\ SubSeq(stem, 1, Len(b)) = b
    /\ (Len(stem) = Len(b) \/ IsSuffix(SubSeq(stem, Len(b) + 1, Len(stem))))

\* The page number the claim gives the stem with base b.
PageOf(stem, b) ==
    IF Len(stem) = Len(b) THEN 1
    ELSE LET r == SubSeq(stem, Len(b) + 1, Len(stem))
             sep == CHOOSE x \in Separators :
                        /\ Len(r) > Len(x) /\ SubSeq(r, 1, Len(x)) = x
                        /\ AllDigits(SubSeq(r, Len(x) + 1, Len(r)))
         IN  ToInt(SubSeq(r, Len(sep) + 1, Len(r)))

Documents == {i \in DOMAIN folder : IsDocument(folder[i])}

\* Every group lists its pages in ascending order, one entry per file.
GroupsWellFormed ==
    /\ \A b \in DOMAIN doc_groups :
          /\ IsSorted(doc_groups[b])
          /\ Len(doc_groups[b]) = Cardinality({i \in Documents : placed[i].base_name = b})
    /\ \A i \in Documents :
          /\ placed[i].base_name \in DOMAIN doc_groups
          /\ \E k \in DOMAIN doc_groups[placed[i].base_name] :
                doc_groups[placed[i].base_name][k] = placed[i].page_number

\* C17 as claimed: the files of a folder whose stems are a common base name
\* followed by page-number suffixes (or by nothing, which is page 1) are in
\* one group keyed by the base name, with their page numbers in ascending order.
C17_SuffixGrouping ==
    grp_pc = "grouped" =>
        /\ GroupsWellFormed
        /\ \A b \in Bases \ {<<>>} : \A i \in Documents :
              HasBase(folder[i].stem, b) =>
                  /\ placed[i].base_name = b
                  /\ placed[i].page_number = PageOf(folder[i].stem, b)

\* The stem is nothing but a page-number suffix.
SuffixOnly(stem) == IsSuffix(stem)

\* C17 as amended: the same for the stems that are more than a suffix; a stem
\* that is only a suffix is filed under the whole stem as page 1.
C17_SuffixGroupingWithBase ==
    grp_pc = "grouped" =>
        /\ GroupsWellFormed
        /\ \A b \in Bases \ {<<>>} : \A i \in Documents :
              (HasBase(folder[i].stem, b) /\ ~SuffixOnly(folder[i].stem)) =>
                  /\ placed[i].base_name = b
                  /\ placed[i].page_number = PageOf(folder[i].stem, b)
        /\ \A i \in Documents :
              SuffixOnly(folder[i].stem) =>
                  /\ placed[i].base_name = folder[i].stem
                  /\ placed[i].page_number = 1

\* C17 witness: "Inv 2" found before "InvPage1" gives the one group Inv with
\* pages 1, 2.
C17_Witness ==
    /\ grp_pc = "grouped"
    /\ folder = <<[stem |-> Inv \o <<" ", "2">>, ext |-> "pdf"],
                  [stem |-> Inv \o PageWord \o <<"1">>, ext |-> "pdf"]>>
    /\ doc_groups = (Inv :> <<1, 2>>)

----------------------------------------------------------------------------
\* Claims on the job lifecycle (Spec).

\* C18 as claimed: the values assigned to a job's status are Queued, then
\* Processing, then Completed or Failed, and nothing after those two.
C18_Lifecycle ==
    \A j \in Jobs :
        status_log[j] \in {<<>>, <<"Queued">>, <<"Queued", "Processing">>,
                           <<"Queued", "Processing", "Completed">>,
                           <<"Queued", "Processing", "Failed">>}

\* C18 as amended: the same, or Queued then Failed for a job whose archive
\* cannot be extracted or holds no file with a supported extension; Completed
\* is reached through Processing only, and the status read from the registry
\* is the last value assigned.
C18_LifecycleWithEarlyFailure ==
    \A j \in Jobs :
        /\ status_log[j] \in {<<>>, <<"Queued">>, <<"Queued", "Processing">>,
                              <<"Queued", "Processing", "Completed">>,
                              <<"Queued", "Processing", "Failed">>,
                              <<"Queued", "Failed">>}
        /\ job_statuses[j] # NoJob =>
              job_statuses[j].status = status_log[j][Len(status_log[j])]
        /\ status_log[j] = <<"Queued", "Failed">> =>
              archive[j].kind \in {"corrupt", "no_documents"}

\* C18 witness: one job failed without having been Processing, another went
\* through Processing to Completed.
C18_Witness ==
    \E j, k \in Jobs :
        /\ status_log[j] = <<"Queued", "Failed">>
        /\ status_log[k] = <<"Queued", "Processing", "Completed">>
        /\ Len(task[k]) >= 1

\* The archive of job j cannot be extracted or holds no document.
NothingToProcess(j) ==
    /\ archive[j] # None
    /\ \/ archive[j].kind \in {"corrupt", "no_documents"}
       \/ archive[j].kind = "groups" /\ archive[j].n = 0

\* C19: a job whose archive cannot be extracted or holds no processable
\* document is never Completed, starts no group task, and ends Failed with
\* the error in its details.
C19_NothingToProcessFails ==
    \A j \in Jobs :
        (NothingToProcess(j) /\ job_statuses[j] # NoJob) =>
            /\ job_statuses[j].status \in {"Queued", "Failed"}
            /\ task[j] = <<>>
            /\ job_statuses[j].status = "Failed"
                  => "error" \in DOMAIN job_statuses[j].details

\* C20: a step that changes a job's groups_processed adds one to it and
\* updates progress_percent and details together with it.
C20_CompletionUpdatesAllThree ==
    [][\A j \in Jobs :
          (/\ job_statuses[j] # NoJob
           /\ job_statuses'[j] # NoJob
           /\ job_statuses'[j].groups_processed # job_statuses[j].groups_processed)
          => /\ job_statuses'[j].groups_processed = job_statuses[j].groups_processed + 1
             /\ job_statuses'[j].progress_percent
                   \in {[num |-> 100 * job_statuses'[j].groups_processed,
                         den |-> job_statuses'[j].total_groups],
                        [num |-> 100, den |-> 1]}
             /\ job_statuses'[j].details # job_statuses[j].details]_vars

----------------------------------------------------------------------------
\* Claims on the final status, the sink and termination.

\* The group reached finalization: _extract_data_from_document returned a
\* result without _overall_status and process_case_group built its row.
Finalized == pc = "returned" /\ "_overall_status" \notin DOMAIN extraction_result

\* C21: the status of a finalized group is "Success" if and only if no
\* expected field of the merged result is null after any re-ask, and
\* "Partial Success" otherwise.
C21_SuccessIffNoNull ==
    Finalized =>
        LET complete == \A f \in Range(fields_to_extract) : extraction_result[f] # None
        IN  /\ complete <=> RowStatus = <<"Success">>
            /\ ~complete <=> StartsWith(RowStatus, "Partial Success")

\* file is the start of longer.
IsPrefix(file, longer) ==
    /\ Len(file) <= Len(longer)
    /\ SubSeq(longer, 1, Len(file)) = file

\* The rows the tasks of a job returned, by group.
ReturnedRows(tasks) == {tasks[g].row : g \in {h \in DOMAIN tasks : tasks[h].pc = "done"}}

\* The lines _append_to_csv wrote to file: one header, on the first line, and
\* records that carry exactly EXCEL_COLUMN_ORDER, in that order, each being a
\* returned row with None in the columns the row lacks.
SinkWellFormed(file, tasks) ==
    \A i \in DOMAIN file :
        /\ file[i].columns = EXCEL_COLUMN_ORDER
        /\ file[i].kind = "header" <=> i = 1
        /\ file[i].kind = "record" =>
              /\ DOMAIN file[i].cells = Range(EXCEL_COLUMN_ORDER)
              /\ \E row \in ReturnedRows(tasks) :
                    \A c \in Range(EXCEL_COLUMN_ORDER) :
                        file[i].cells[c] = IF c \in DOMAIN row THEN row[c] ELSE None

\* C22: every step leaves the lines already in a job's output file as they
\* were, and the lines of the file are one header followed by records of
\* exactly the fixed columns in the fixed order, the columns a row lacks
\* being null. (The placeholder file of lines 327-328 is written only when
\* nothing was appended.)
C22_SinkAppendOnly ==
    [][\A j \in Jobs :
          /\ IsPrefix(csv[j], csv'[j])
          /\ csv'[j] = NoDataFile \/ SinkWellFormed(csv'[j], task'[j])]_vars

\* C22 witness: two rows were appended to the file of one job, after one header.
C22_Witness ==
    \E j \in Jobs :
        /\ Len(csv[j]) = 3
        /\ csv[j][1].kind = "header"
        /\ csv[j][2].kind = "record" /\ csv[j][3].kind = "record"
        /\ csv[j][2].cells[<<"INVOICE", "HS CODE", "Value">>] = None
        /\ csv[j][2].cells[<<"GROUP_Basename">>] # csv[j][3].cells[<<"GROUP_Basename">>]

\* The row of the group was appended to the output file; its record is the
\* last line of the file.
RowAppended == pc = "appended" /\ "_overall_status" \notin DOMAIN extraction_result
SinkRecord == output_csv[Len(output_csv)]

\* C23: for every field of the classified type, the value, confidence and
\* reasoning columns of the row process_case_group returned are in the record
\* appended to the output file, with the cells of the row.
C23_FieldColumnsReachSink ==
    RowAppended =>
        \A f \in Range(fields_to_extract) :
            \A part \in {"Value", "Confidence", "Reasoning"} :
                LET column == <<class_result["classified_type"], f, part>>
                IN  /\ column \in DOMAIN result_row
                    /\ column \in DOMAIN SinkRecord.cells
                    /\ SinkRecord.cells[column] = result_row[column]

\* Task g of job j was started: process_case_group ran up to its first await.
Started(j, g) == g \in DOMAIN task[j] /\ task[j][g].pc # "created"

\* Task g of job j ended with a row whose status is one of the terminal
\* outcomes: classification failed, UNKNOWN, extraction failed, Success,
\* Partial Success.
ReachedOutcome(j, g) ==
    /\ g \in DOMAIN task[j]
    /\ task[j][g].pc = "done"
    /\ task[j][g].row[<<"Processing_Status">>].cell[1]
          \in {"Classification Failed", "Classified as UNKNOWN", "Extraction Failed",
               "Success", "Partial Success"}

\* C24: every started group task eventually reaches one of its terminal
\* outcomes, and every registered job eventually is Completed or Failed.
C24_EveryTaskReachesOutcome ==
    \A j \in Jobs :
        /\ (job_statuses[j] # NoJob) ~> JobEnded(j)
        /\ \A g \in 1..MaxGroups : Started(j, g) ~> ReachedOutcome(j, g)

\* What does hold of termination: every started task eventually ends, with a
\* row or with an exception, and every registered job eventually is Completed
\* or Failed.
TasksAndJobsEnd ==
    \A j \in Jobs :
        /\ (job_statuses[j] # NoJob) ~> JobEnded(j)
        /\ \A g \in 1..MaxGroups :
              Started(j, g) ~> (g \in DOMAIN task[j] /\ TaskEnded(task[j][g]))

----------------------------------------------------------------------------
\* Further claims on the gateway (GwSpec).

\* C25: while an invocation waits after a retryable failure that came with a
\* Retry-After hint, the wait is the hinted delay, not the computed backoff.
C25_RetryAfterTakesPrecedence ==
    \A c \in Callers :
        (inv[c].pc = "sleeping" /\ RetryAfter(inv[c].last) # None)
            => inv[c].wait = RetryAfter(inv[c].last)

\* The responses that are well formed at the transport level and wrong in
\* content: a schema validation error, or no parsed object.
WrongContent == {"validation_error", "no_parsed_object"}

\* C26: an invocation whose latest response is well formed but invalid or
\* without parsed object makes no further attempt and does not sleep: it is
\* returning, with the sanitized result or with an error value.
C26_NoRetryOnWrongContent ==
    \A c \in Callers :
        inv[c].last \in WrongContent =>
            /\ Returning(c)
            /\ inv[c].result \in {"sanitized_payload", "schema_error", "application_error"}

\* C26 witness: after two transport failures the third response fails schema
\* validation and the invocation returns an error value after three attempts.
C26_Witness ==
    \E c \in Callers :
        /\ Returning(c) /\ ~inv[c].is_correction
        /\ inv[c].first = "status_503" /\ inv[c].last = "validation_error"
        /\ inv[c].attempts = 3 /\ inv[c].sleeps = 2
        /\ inv[c].result = "schema_error"

----------------------------------------------------------------------------
\* Claims on correction and re-ask (FnSpec).

\* The correction calls issued so far.
NumCorrections(cs) == Cardinality({i \in DOMAIN cs : cs[i] = "correction"})

\* Extraction ended with the given error.
ExtractionFailedWith(er, e) ==
    /\ "_overall_status" \in DOMAIN er
    /\ er["_overall_status"]["error"] = e

\* C27: the correction issues at most JSON_CORRECTION_ATTEMPTS model calls,
\* one per attempt; a correction call is issued only after the extraction
\* response or the previous correction failed to normalize; when it ends
\* without another call, either the output normalized (a re-ask or the row
\* follows) or the result is an error; the error of the exhausted budget comes
\* after exactly JSON_CORRECTION_ATTEMPTS calls.
C27_CorrectionBounded ==
    [][/\ NumCorrections(calls') <= JSON_CORRECTION_ATTEMPTS
       /\ pc' = "correct_call" =>
             /\ pc \in {"extract_call", "correct_call"}
             /\ NumCorrections(calls') = NumCorrections(calls) + 1
             /\ attempts_left' = JSON_CORRECTION_ATTEMPTS - NumCorrections(calls)
       /\ (pc = "correct_call" /\ pc' # "correct_call") =>
             /\ calls' = calls \/ calls' = Append(calls, "reask")
             /\ \/ pc' = "reask_call" /\ ~IsError(extraction_result')
                \/ pc' = "returned" /\ "_extraction_status" \in DOMAIN extraction_result'
                \/ pc' = "returned" /\ "_overall_status" \in DOMAIN extraction_result'
       /\ (pc' = "returned"
             /\ ExtractionFailedWith(extraction_result',
                                     "Max JSON correction attempts reached")) =>
             NumCorrections(calls') = JSON_CORRECTION_ATTEMPTS]_vars

\* C27 witness: the extraction response and three corrections failed to
\* normalize, and the group's row reports the exhausted budget.
C27_Witness ==
    /\ pc = "returned"
    /\ calls = <<"extraction", "correction", "correction", "correction">>
    /\ ExtractionFailedWith(extraction_result, "Max JSON correction attempts reached")
    /\ RowStatus = <<"Extraction Failed", "Max JSON correction attempts reached">>

\* C28: a correction call is issued only for a text that still fails to
\* normalize after programmatic sanitization.
C28_SanitizationBeforeCorrection ==
    pc = "correct_call" =>
        IsError(_parse_llm_json_response(SanitizedForm(malformed_json_text),
                                         create_extraction_model(FieldList(fields_to_extract)),
                                         fields_to_extract))

ReaskIssued == \E i \in DOMAIN calls : calls[i] = "reask"

\* C29: a re-ask was issued only on a result that normalized with at least
\* one expected field null, for exactly the expected fields null at that
\* point; no re-ask was issued for a result without null field, nor when
\* normalization failed for good.
C29_ReaskOnlyForNulls ==
    /\ ReaskIssued =>
          /\ before_reask # None
          /\ ~IsError(before_reask)
          /\ missing_fields # <<>>
          /\ Range(missing_fields)
                = {f \in Range(fields_to_extract) : before_reask[f] = None}
    /\ (pc \in {"returned", "appended"} /\ ~ReaskIssued
          /\ "_extraction_status" \in DOMAIN extraction_result) =>
          \A f \in Range(fields_to_extract) : extraction_result[f] # None
    /\ "_overall_status" \in DOMAIN extraction_result => ~ReaskIssued

\* C29 witness: a correction normalized with HS CODE null and INVOICE NO
\* filled, and the re-ask in progress asks for HS CODE alone.
C29_Witness ==
    /\ pc = "reask_call"
    /\ fields_to_extract = <<"INVOICE NO", "HS CODE">>
    /\ calls = <<"extraction", "correction", "reask">>
    /\ missing_fields = <<"HS CODE">>
    /\ before_reask["INVOICE NO"] # None

\* The re-ask is exhausted: its response failed to normalize, or returned
\* nothing for the fields it asked for.
ReaskExhausted ==
    /\ pc = "returned"
    /\ reask_result # None
    /\ \/ IsError(reask_result)
       \/ \A f \in Range(missing_fields) : reask_result[f] = None

\* C30: when the re-ask is exhausted, every field that held a non-null entry
\* before the re-ask has that entry's value and confidence in the group's row,
\* and the status is Partial Success.
C30_ExhaustedReaskKeepsData ==
    ReaskExhausted =>
        /\ StartsWith(RowStatus, "Partial Success")
        /\ \A f \in Range(fields_to_extract) :
              before_reask[f] # None =>
                  /\ extraction_result[f] = before_reask[f]
                  /\ RowValue(f) = (IF before_reask[f].value # None
                                    THEN Cell(Str(before_reask[f].value)) ELSE None)
                  /\ RowConfidence(f) = Cell(before_reask[f].confidence)

\* What does hold: when the re-ask response failed to normalize or held no
\* entry for any field of the schema, the entries of before the re-ask are in
\* the row and the status is Partial Success.
FailedReaskKeepsData ==
    (/\ pc = "returned"
     /\ reask_result # None
     /\ \/ IsError(reask_result)
        \/ \A f \in Range(fields_to_extract) : reask_result[f] = None) =>
        /\ StartsWith(RowStatus, "Partial Success")
        /\ \A f \in Range(fields_to_extract) : extraction_result[f] = before_reask[f]

----------------------------------------------------------------------------
\* Claims on the key reconciliation (KeySpec).

\* The fingerprint as the claim words it: uppercased, each run of
\* non-alphanumeric characters collapsed to "_".
Fingerprint(k) ==
    LET s == CollapseRuns(Chars(k), FALSE)
    IN  [i \in DOMAIN s |-> ToUpper(s[i])]

\* The returned keys (as positions of data_dict) that match the expected name n.
MatchingKeys(n) ==
    {i \in DOMAIN data_dict : Fingerprint(data_dict[i][1]) = Fingerprint(n)}

\* C31: every returned key whose fingerprint equals that of an expected field
\* name has its value stored under that expected name in the normalized dict,
\* and a field returned with an entry under such a key is not among the
\* missing fields.
C31_VariantStoredUnderExpectedName ==
    /\ key_pc \in {"normalized", "validated", "examined"} =>
          \A n \in Range(expected_names) : \A i \in MatchingKeys(n) :
              /\ n \in DOMAIN normalized_dict
              /\ normalized_dict[n] = data_dict[i][2]
    /\ key_pc = "examined" =>
          \A n \in Range(expected_names) : \A i \in MatchingKeys(n) :
              data_dict[i][2] # JNull => n \notin Range(reported_missing)

\* What holds of the reconciliation: a matching key is never kept under its
\* own spelling, the expected name holds the value of the last returned key
\* that matches it, and when one key only matches a name its entry keeps the
\* field from being reported missing.
LastMatchingKeyWins ==
    /\ key_pc \in {"normalized", "validated", "examined"} =>
          \A n \in Range(expected_names) :
              MatchingKeys(n) # {} =>
                  LET last == CHOOSE i \in MatchingKeys(n) : \A k \in MatchingKeys(n) : k <= i
                  IN  /\ n \in DOMAIN normalized_dict
                      /\ normalized_dict[n] = data_dict[last][2]
                      /\ \A i \in MatchingKeys(n) :
                            data_dict[i][1] # n => data_dict[i][1] \notin DOMAIN normalized_dict
    /\ key_pc = "examined" =>
          \A n \in Range(expected_names) :
              (Cardinality(MatchingKeys(n)) = 1
                 /\ \A i \in MatchingKeys(n) : data_dict[i][2] # JNull)
                  => n \notin Range(reported_missing)

\* The conclusion of C31 alone: a field returned with an entry under a key
\* that matches its name is not reported missing.
VariantNeverReportedMissing ==
    key_pc = "examined" =>
        \A n \in Range(expected_names) : \A i \in MatchingKeys(n) :
            data_dict[i][2] # JNull => n \notin Range(reported_missing)

----------------------------------------------------------------------------
\* Further claims on the service (Spec).

\* The task of group g of job j ended after a classification that sends the
\* group on to extraction.
EndedAfterExtraction(j, g) ==
    /\ g \in DOMAIN task[j]
    /\ TaskEnded(task[j][g])
    /\ task[j][g].outcome # None
    /\ task[j][g].outcome # Raises
    /\ ~ClassificationEnds(task[j][g].outcome.result)

\* The field names of the sections of a DocumentType.
SectionFields(doc_type) ==
    UNION {Range(DOCUMENT_FIELDS[doc_type].items[s]) :
             s \in DOMAIN DOCUMENT_FIELDS[doc_type].items}

\* C32: a group classified as a DocumentType of the registry is extracted
\* section by section and ends with a row that holds the value and confidence
\* columns of the fields of every section, a section without usable output
\* giving null and 0.0.
C32_SectionsExtractedIndependently ==
    \A j \in Jobs : \A g \in 1..MaxGroups :
        EndedAfterExtraction(j, g) =>
            LET t        == task[j][g]
                doc_type == t.outcome.result["classified_type"]
            IN  /\ t.pc = "done"
                /\ t.row # None
                /\ \A f \in SectionFields(doc_type) :
                      /\ <<doc_type, f, "Value">> \in DOMAIN t.row
                      /\ <<doc_type, f, "Confidence">> \in DOMAIN t.row
                      /\ t.row[<<doc_type, f, "Value">>] = None
                            => t.row[<<doc_type, f, "Confidence">>] = Cell(0)

\* The groups of the records of a file, in the order of the records.
RECURSIVE GroupsOfRecords(_)
GroupsOfRecords(file) ==
    IF file = <<>> THEN <<>>
    ELSE (IF Head(file).kind = "record" /\ <<"GROUP_Basename">> \in DOMAIN Head(file).cells
          THEN <<Head(file).cells[<<"GROUP_Basename">>].cell>> ELSE <<>>)
         \o GroupsOfRecords(Tail(file))

\* C33: whenever a row is appended to a job's file it is the row of the task
\* that ended first among the tasks the loop has not yet awaited, whatever the
\* numbers (the discovery order) of the groups; a task that ended later never
\* gets its row in before.
C33_RowsInCompletionOrder ==
    [][\A j \in Jobs :
          GroupsOfRecords(csv'[j]) # GroupsOfRecords(csv[j]) =>
              /\ completed[j] # <<>>
              /\ GroupsOfRecords(csv'[j]) =
                    Append(GroupsOfRecords(csv[j]), Head(completed[j]))]_vars

\* C33 witness: the group discovered second ended first, both tasks returned
\* a row, and the file holds the row of the second group before the row of
\* the first.
C33_Witness ==
    \E j \in Jobs :
        /\ job_statuses[j] # NoJob
        /\ job_statuses[j].status = "Completed"
        /\ GroupsOfRecords(csv[j]) = <<2, 1>>

\* The tasks of job j have been created (lines 305-309).
Dispatched(j) == task[j] # <<>>

\* C34: after every step, groups_processed of every job is between 0 and
\* total_groups; no step makes it smaller; and no step changes total_groups
\* of a job whose groups have been dispatched.
C34_CountersBounded ==
    [][\A j \in Jobs :
          /\ job_statuses'[j] # NoJob =>
                /\ job_statuses'[j].groups_processed >= 0
                /\ job_statuses'[j].groups_processed <= job_statuses'[j].total_groups
          /\ job_statuses[j] # NoJob =>
                /\ job_statuses'[j] # NoJob
                /\ job_statuses'[j].groups_processed >= job_statuses[j].groups_processed
                /\ Dispatched(j) =>
                      job_statuses'[j].total_groups = job_statuses[j].total_groups]_vars

\* C34 witness: a job half way through its two groups, the group counted
\* being one whose task raised.
C34_Witness ==
    \E j \in Jobs :
        /\ job_statuses[j] # NoJob
        /\ job_statuses[j].status = "Processing"
        /\ Dispatched(j)
        /\ job_statuses[j].total_groups = 2
        /\ job_statuses[j].groups_processed = 1
        /\ csv[j] = <<>>

----------------------------------------------------------------------------
\* Further claims on the gateway (GwSpec).

\* C35: after every step the slots taken are exactly those of the invocations
\* admitted and not yet returned, a sleeping invocation among them; a backoff
\* sleep ends in the next attempt or in the return, never in giving up the
\* slot; and a waiting caller is admitted only when fewer than
\* API_CONCURRENCY_LIMIT invocations are admitted, not while the holders of
\* all slots sleep.
C35_SlotHeldThroughSleeps ==
    [][/\ sem' + Cardinality(Admitted') = API_CONCURRENCY_LIMIT
       /\ \A c \in Callers :
             /\ inv[c].pc = "sleeping" => c \in Admitted'
             /\ (c \in Admitted /\ c \notin Admitted') => inv[c].pc = "returning"
             /\ (inv[c].pc = "waiting" /\ inv'[c].pc # "waiting")
                   => Cardinality(Admitted) < API_CONCURRENCY_LIMIT]_vars

\* C35 witness: an invocation that slept between two attempts is about to
\* return and still holds the only slot, while another caller waits.
C35_Witness ==
    /\ sem = 0
    /\ \E c, d \in Callers :
          /\ inv[c].pc = "waiting"
          /\ inv[d].pc = "returning" /\ inv[d].sleeps >= 1

\* C36: whatever the invocations returned with, the free slots are never more
\* than API_CONCURRENCY_LIMIT nor fewer than 0 and are all of them whenever no
\* invocation is admitted; and a caller waiting for a slot is eventually
\* admitted: no caller waits from some time on for ever (a caller leaves the
\* wait only by taking a slot).
C36_SlotReleasedOnEveryExit ==
    /\ [](sem \in 0..API_CONCURRENCY_LIMIT)
    /\ [](Admitted = {} => sem = API_CONCURRENCY_LIMIT)
    /\ \A c \in Callers : []<>(inv[c].pc # "waiting")

\* C36 witness: an invocation leaves through the validation-error path after
\* sanitization failed, holding the slot another caller waits for.
C36_Witness ==
    /\ sem = 0
    /\ \E c, d \in Callers :
          /\ inv[c].pc = "waiting"
          /\ inv[d].pc = "returning" /\ inv[d].result = "schema_error"

----------------------------------------------------------------------------
\* Further claims on the functions (FnSpec).

\* The place of a kind of call in the order of the claim.
CallRank(kind) ==
    CASE kind = "classification" -> 1
      [] kind = "extraction"     -> 2
      [] kind = "correction"     -> 3
      [] kind = "reask"          -> 4

NumCalls(kind) == Cardinality({i \in DOMAIN calls : calls[i] = kind})

\* C37: the calls issued for a group are at most one classification call, one
\* extraction call, JSON_CORRECTION_ATTEMPTS correction calls and one re-ask
\* call, in that order; after a classification response that did not parse no
\* further call is issued.
C37_CallBudgetAndOrder ==
    /\ NumCalls("classification") <= 1
    /\ NumCalls("extraction") <= 1
    /\ NumCalls("correction") <= JSON_CORRECTION_ATTEMPTS
    /\ NumCalls("reask") <= 1
    /\ \A i, k \in DOMAIN calls : i < k => CallRank(calls[i]) <= CallRank(calls[k])
    /\ IsError(class_result) => calls = <<"classification">>

\* C37 witness: a group went through every kind of call, the correction loop
\* to its last attempt, and its row is returned.
C37_Witness ==
    /\ pc = "returned"
    /\ calls = <<"classification", "extraction", "correction", "correction",
                 "correction", "reask">>

\* Some task of job j ended with an exception.
SomeTaskRaised(j) == \E g \in DOMAIN task[j] : task[j][g].pc = "raised"

\* A step of the processing of job j after the dispatch of its tasks.
ProcessingStep(j) ==
    \/ AwaitNext(j)
    \/ \E g \in 1..MaxGroups : TaskStart(j, g) \/ TaskClassifyReturn(j, g)

\* C38: a job whose tasks were dispatched is never Failed, whatever its tasks
\* raise; while it is Processing some task or the loop can take a step (a
\* raised task stops neither); and when it is Completed every task has ended
\* and has been counted and the output file exists.
C38_TaskExceptionDoesNotStopJob ==
    \A j \in Jobs :
        Dispatched(j) =>
            /\ job_statuses[j].status \in {"Processing", "Completed"}
            /\ job_statuses[j].status = "Processing" => ENABLED ProcessingStep(j)
            /\ job_statuses[j].status = "Completed" =>
                  /\ \A g \in DOMAIN task[j] : TaskEnded(task[j][g])
                  /\ job_statuses[j].groups_processed = Len(task[j])
                  /\ csv[j] # <<>>

\* Under the fair specification no job stays Processing for ever.
NoJobProcessesForEver ==
    \A j \in Jobs :
        []<>(job_statuses[j] = NoJob \/ job_statuses[j].status # "Processing")

\* C38 witness: both tasks of a job raised, both were counted, the job is
\* Completed and its file is the placeholder.
C38_Witness ==
    \E j \in Jobs :
        /\ Len(task[j]) = 2
        /\ \A g \in DOMAIN task[j] : task[j][g].pc = "raised"
        /\ job_statuses[j].status = "Completed"
        /\ job_statuses[j].groups_processed = 2
        /\ csv[j] = NoDataFile

\* A step changed something of job j: its registry entry, its archive, its
\* tasks, the loop over them or its output file.
Touched(j) ==
    \/ job_statuses'[j] # job_statuses[j]
    \/ archive'[j] # archive[j]
    \/ task'[j] # task[j]
    \/ completed'[j] # completed[j]
    \/ awaited'[j] # awaited[j]
    \/ csv'[j] # csv[j]

\* C39: a step of one job (registration, dispatch, a task's step, a turn of
\* the loop, the job's end) leaves the registry entry of every other job as it
\* was, together with the other job's tasks and file, and no step removes an
\* entry from the registry.
C39_JobsDoNotInterfere ==
    [][\A j \in Jobs :
          /\ job_statuses[j] # NoJob => job_statuses'[j] # NoJob
          /\ Touched(j) =>
                \A k \in Jobs \ {j} :
                    /\ ~Touched(k)
                    /\ job_statuses'[k] = job_statuses[k]]_vars

\* C39 witness: two jobs were processed side by side; one is Completed with
\* its group counted while the other is still Processing with nothing counted.
C39_Witness ==
    \E j, k \in Jobs :
        /\ j # k
        /\ job_statuses[j] # NoJob /\ job_statuses[k] # NoJob
        /\ job_statuses[j].status = "Completed"
        /\ job_statuses[j].groups_processed = 1
        /\ job_statuses[j].result_path = Cell(j)
        /\ job_statuses[k].status = "Processing"
        /\ job_statuses[k].total_groups = 1
        /\ job_statuses[k].groups_processed = 0
        /\ job_statuses[k].result_path = None

====
